---------------------------- MODULE Spec2Model ----------------------------
(***************************************************************************)
(* SwellSense backend: the multi-source aggregation endpoints and the      *)
(* health endpoint (routers/forecast.py), the provider adapters with their *)
(* per-cell caches and timeouts (utils/api_clients.py, utils/fetch_*.py),  *)
(* the global ingestion scheduler (scheduler.py), and the ingest endpoints *)
(* of routers/status.py with the legacy service they use                   *)
(* (services/ingestion_service.py).                                        *)
(*                                                                         *)
(* Units: coordinates are integers in hundredths of a degree, measured     *)
(* values are integers in hundredths of their unit, the clock counts       *)
(* seconds.  Python's None is NoneVal for a number and the record          *)
(* NoneResult for a missing adapter result.                                *)
(***************************************************************************)
EXTENDS Integers, Sequences, FiniteSets, TLC

VARIABLES
    \* ---- aggregation request (routers/forecast.py)
    req,          \* the request being served: [endpoint, lat, lon], or NoReq
    pc,           \* "idle" | "gathering" | "done"
    task,         \* per adapter: "none" | "inflight" | "done" | "cancelled"
    results,      \* per adapter: what asyncio.gather collected for it
    calls,        \* per adapter: number of fetch_* invocations
    response,     \* the HTTP response of the request, NoResponse before
    \* ---- adapters (utils/)
    now,          \* the clock, in seconds
    cache,        \* per caching adapter: cache key -> entry or NoEntry
    creds,        \* per credentialed adapter: are its credentials configured
    fetches,      \* SpecCache: the fetch tasks of the adapter under study
    netcalls,     \* number of fetches that went to the remote provider
    log,          \* SpecCache: history of finished fetches
    \* ---- ingestion scheduler (scheduler.py)
    is_running,   \* GlobalIngestionScheduler.is_running
    loop,         \* the periodic-loop task self.task, see LoopInit
    ingest,       \* per ingestion source: state of its ingest_data() call
    storage,      \* the buoy stations in the database
    stopper,      \* state of the stop() coroutine: "idle"|"awaiting"|"returned"|"raised"
    hist,         \* scheduler history used by the properties
    \* ---- health endpoint (routers/forecast.py)
    _health_cache,   \* the module-level snapshot cache: [timestamp, data]
    health_pc,       \* "idle" | "probing" | "done"
    request_start,   \* request_start of the health request being served
    health_served,   \* number of health requests answered
    health_response, \* the answer to the last health request, and what
                     \* serving it did
    \* ---- fetch timeouts (utils/)
    timeouts,     \* per adapter: attempts of the current fetch that timed out
    \* ---- legacy ingestion service (services/ingestion_service.py) and
    \*      the endpoints of routers/status.py that use it
    ingestion_service, \* the module-level IngestionService instance
    trigger,      \* the run of POST /api/ingest/trigger, see TriggerIdle
    \* ---- concurrency studies
    arrival,      \* the outcomes fixed for the fetches of the request and the
                  \* order in which they ended, see NoArrival
    probes        \* concurrent health requests, see FreeProbe

aggVars    == <<req, pc, task, results, calls, response>>
adaptVars  == <<now, cache, creds, fetches, netcalls, log>>
schedVars  == <<is_running, loop, ingest, storage, stopper, hist>>
healthVars == <<_health_cache, health_pc, request_start, health_served, health_response>>
waitVars   == <<timeouts>>
serviceVars == <<ingestion_service, trigger>>
raceVars   == <<arrival, probes>>
vars       == <<aggVars, adaptVars, schedVars, healthVars, waitVars, serviceVars, raceVars>>

-----------------------------------------------------------------------------
(* Providers, in the order of the asyncio.gather call *)

Adapters ==
    <<"stormglass", "openweather", "worldtides", "metno", "noaa_erddap",
      "noaa_gfs", "era5", "openmeteo", "copernicus_marine">>

AdapterSet == {Adapters[i] : i \in 1..Len(Adapters)}

\* adapters that keep a module-level result cache
CachingAdapters == {"noaa_erddap", "noaa_gfs", "era5", "openmeteo", "copernicus_marine"}

\* adapters that return an unavailable result without credentials
CredentialAdapters == {"era5", "copernicus_marine"}

NoneVal == -1

\* a result that is no dict: Python's None, or the exception asyncio.gather
\* hands back in place of a result
NoDict(kind) ==
    [kind           |-> kind,
     source         |-> "",
     available      |-> "missing",
     wave_height_m  |-> NoneVal,
     wind_speed_ms  |-> NoneVal,
     temperature_c  |-> NoneVal,
     current_tide_m |-> NoneVal]

NoneResult == NoDict("none")
ExcResult  == NoDict("exc")

\* Python truthiness of a number-or-None
Truthy(v) == v # NoneVal /\ v # 0

-----------------------------------------------------------------------------
(* Cache keys *)

\* Python round(): n/d rounded to the nearest integer, ties to even
PyRound(n, d) ==
    LET q == n \div d
        r == n % d
    IN  IF 2 * r < d THEN q
        ELSE IF 2 * r > d THEN q + 1
        ELSE IF q % 2 = 0 THEN q ELSE q + 1

\* round(x * per_degree) / per_degree, x and the result in hundredths
RoundTo(x, per_degree) == (PyRound(x * per_degree, 100) * 100) \div per_degree

\* cells per degree of each adapter's _get_cache_key
GridPerDegree(a) ==
    CASE a = "noaa_erddap"       -> 2
      [] a = "noaa_gfs"          -> 2
      [] a = "era5"              -> 4
      [] a = "openmeteo"         -> 10
      [] a = "copernicus_marine" -> 4

_get_cache_key(a, lat, lon) ==
    <<RoundTo(lat, GridPerDegree(a)), RoundTo(lon, GridPerDegree(a))>>


-----------------------------------------------------------------------------
(* Time and the cache *)

\* CACHE_TTL of every caching adapter, in seconds
CACHE_TTL == 3600

\* seconds the clock advances by when the adapter caches are studied: half
\* a TTL
TickSeconds == CACHE_TTL \div 2

NoEntry == [data |-> NoneResult, cached_at |-> -1]

\* (start_time - cached["cached_at"]).total_seconds()
CacheAge(entry, start_time) == start_time - entry.cached_at

\* "if cache_key in _cache: ... if cache_age < CACHE_TTL: return cached['data']"
CacheHit_inclusive(c, a, key, start_time) ==
    /\ a \in CachingAdapters
    /\ key \in DOMAIN c[a]
    /\ CacheAge(c[a][key], start_time) <= CACHE_TTL

CacheHit(c, a, key, start_time) ==
    /\ a \in CachingAdapters
    /\ key \in DOMAIN c[a]
    /\ CacheAge(c[a][key], start_time) < CACHE_TTL

\* "_cache[cache_key] = {'data': result, 'cached_at': start_time}": the
\* entry of the cell is replaced, whatever it held
CachePut_newest(c, a, key, data, start_time) ==
    IF key \in DOMAIN c[a] /\ c[a][key].cached_at >= start_time THEN c
    ELSE [c EXCEPT ![a] = (key :> [data |-> data, cached_at |-> start_time]) @@ @]

CachePut(c, a, key, data, start_time) ==
    [c EXCEPT ![a] = (key :> [data |-> data, cached_at |-> start_time]) @@ @]

-----------------------------------------------------------------------------
(* What a fetch returns *)

\* the value every numeric field of a successful observation carries
Reading == 150

HasWave(a) == a \in {"stormglass", "metno", "noaa_erddap", "noaa_gfs", "era5", "openmeteo"}
HasWind(a) == a \in {"stormglass", "openweather", "noaa_erddap", "noaa_gfs", "era5"}

\* the dict a successful fetch of adapter a builds from a remote reading r;
\* only the five caching adapters set the "available" key
Observation(a, r) ==
    [kind           |-> "obs",
     source         |-> a,
     available      |-> IF a \in CachingAdapters THEN "true" ELSE "missing",
     wave_height_m  |-> IF HasWave(a) THEN r ELSE NoneVal,
     wind_speed_ms  |-> IF HasWind(a) THEN r ELSE NoneVal,
     temperature_c  |-> IF a = "openweather" THEN r ELSE NoneVal,
     current_tide_m |-> IF a = "worldtides" THEN r ELSE NoneVal]

\* the dict with "available": False
Unavailable(a) ==
    [kind           |-> "unavailable",
     source         |-> a,
     available      |-> "false",
     wave_height_m  |-> NoneVal,
     wind_speed_ms  |-> NoneVal,
     temperature_c  |-> NoneVal,
     current_tide_m |-> NoneVal]

\* How a fetch that went to the remote provider can end.  "none": a
\* transport or parse error caught by the adapter; "unavailable": the
\* all-cycles-failed result of noaa_gfs; "exc": an exception that escapes
\* the adapter (any Python code can raise MemoryError, which the handlers'
\* return_exceptions=True provides for).  The deployment has the xarray,
\* cdsapi and copernicusmarine packages installed: the ImportError branches
\* of noaa_erddap, era5 and copernicus_marine are not explored.
RemoteKinds(a) ==
    IF a = "noaa_gfs" THEN {"obs", "unavailable", "exc"} ELSE {"obs", "none", "exc"}

ResultOf(a, kind) ==
    CASE kind = "obs"         -> Observation(a, Reading)
      [] kind = "unavailable" -> Unavailable(a)
      [] kind = "none"        -> NoneResult
      [] kind = "exc"         -> ExcResult

\* The synchronous head of fetch_*(lat, lon): everything before the first
\* await.  "hit": the cached data is returned; "unconfigured": era5 and
\* copernicus return an unavailable dict when their credentials are not
\* set; "remote": the fetch goes on to the provider.
FetchHead(c, cr, a, lat, lon, start_time) ==
    IF a \in CachingAdapters /\ CacheHit(c, a, _get_cache_key(a, lat, lon), start_time)
    THEN [how |-> "hit", data |-> c[a][_get_cache_key(a, lat, lon)].data]
    ELSE IF a \in CredentialAdapters /\ ~cr[a]
    THEN [how |-> "unconfigured", data |-> Unavailable(a)]
    ELSE [how |-> "remote", data |-> NoneResult]

\* only a successful observation is stored by a caching adapter: the
\* assignment to the cache sits on the success path alone, every other
\* return comes before it or from an except clause
StoresResult_any(a, kind) == a \in CachingAdapters

StoresResult(a, kind) == a \in CachingAdapters /\ kind = "obs"

\* The tail of fetch_*: the cache after the remote round ended with kind
FetchTail_nostore(c, a, lat, lon, start_time, kind) == c

FetchTail(c, a, lat, lon, start_time, kind) ==
    IF StoresResult(a, kind)
    THEN CachePut(c, a, _get_cache_key(a, lat, lon), ResultOf(a, kind), start_time)
    ELSE c


-----------------------------------------------------------------------------
(* Fetches of one adapter over time *)

\* bounds of the exploration
MaxTicks == 2
MaxFetches == 2
MaxConcurrent == 2

\* the coordinates asked for: 0.00 and 0.25 degrees of latitude fall into
\* one cell of the 0.5-degree grids (round(0.5) is 0) and into two cells of
\* the 0.25-degree and 0.1-degree grids
CacheCoordinates == {<<0, 0>>, <<25, 0>>}

\* the cell a request falls into; an adapter without a cache has no cells,
\* every coordinate is its own
CellOf(a, lat, lon) ==
    IF a \in CachingAdapters THEN _get_cache_key(a, lat, lon) ELSE <<lat, lon>>

FreeSlot == [st |-> "free", lat |-> 0, lon |-> 0, start_time |-> 0, entry |-> 0]

NoFetches == [adapter |-> "", slot |-> <<>>]

\* age in seconds of the entry a fetch finds for its cell, -1 without entry
FoundAge(c, a, lat, lon, start_time) ==
    IF a \in CachingAdapters /\ _get_cache_key(a, lat, lon) \in DOMAIN c[a]
    THEN CacheAge(c[a][_get_cache_key(a, lat, lon)], start_time)
    ELSE -1

CacheInit ==
    /\ now = 0
    /\ cache = [a \in CachingAdapters |-> <<>>]
    /\ fetches \in {[adapter |-> a, slot |-> [i \in 1..MaxConcurrent |-> FreeSlot]] :
                      a \in AdapterSet}
    /\ creds \in {cr \in [CredentialAdapters -> BOOLEAN] :
                    \A a \in CredentialAdapters : a # fetches.adapter => cr[a]}
    /\ netcalls = [a \in AdapterSet |-> 0]
    /\ log = <<>>

\* the clock advances
Tick ==
    /\ now < MaxTicks * TickSeconds
    /\ now' = now + TickSeconds
    /\ UNCHANGED <<cache, creds, fetches, netcalls, log>>
    /\ UNCHANGED <<aggVars, schedVars, healthVars, waitVars, serviceVars, raceVars>>

\* fetch_*(lat, lon) is called and runs to its first await: a cache hit or
\* missing credentials end it at once, otherwise the remote round starts.
\* The log entry notes what the fetch found: the age of the cell's entry and
\* the fetches still in flight; "ended" will number the remote rounds in
\* the order they end.
FetchStart(i, lat, lon) ==
    LET a == fetches.adapter
        head == FetchHead(cache, creds, a, lat, lon, now)
        entry == [cell |-> CellOf(a, lat, lon),
                  start_time |-> now,
                  how |-> head.how,
                  found_age |-> FoundAge(cache, a, lat, lon, now),
                  open |-> {fetches.slot[j].entry :
                              j \in {j \in 1..MaxConcurrent : fetches.slot[j].st = "inflight"}},
                  kind |-> IF head.how = "remote" THEN "pending" ELSE head.data.kind,
                  ended |-> 0]
    IN  /\ Len(log) < MaxFetches
        /\ fetches.slot[i].st = "free"
        /\ \A j \in 1..(i - 1) : fetches.slot[j].st # "free"
        /\ log' = Append(log, entry)
        /\ IF head.how = "remote"
           THEN /\ fetches' = [fetches EXCEPT !.slot[i] =
                                 [st |-> "inflight", lat |-> lat, lon |-> lon,
                                  start_time |-> now, entry |-> Len(log) + 1]]
                /\ netcalls' = [netcalls EXCEPT ![a] = @ + 1]
           ELSE UNCHANGED <<fetches, netcalls>>
        /\ UNCHANGED <<now, cache, creds>>
        /\ UNCHANGED <<aggVars, schedVars, healthVars, waitVars, serviceVars, raceVars>>

\* The remote round of the fetch in slot i ends with kind
FetchFinish(i, kind) ==
    LET a == fetches.adapter
        f == fetches.slot[i]
    IN  /\ f.st = "inflight"
        /\ kind \in RemoteKinds(a)
        /\ cache' = FetchTail(cache, a, f.lat, f.lon, f.start_time, kind)
        /\ log' = [log EXCEPT ![f.entry].kind = kind,
                               ![f.entry].ended = 1 + Cardinality({j \in 1..Len(log) :
                                                                     log[j].ended > 0})]
        /\ fetches' = [fetches EXCEPT !.slot[i] = FreeSlot]
        /\ UNCHANGED <<now, creds, netcalls>>
        /\ UNCHANGED <<aggVars, schedVars, healthVars, waitVars, serviceVars, raceVars>>

-----------------------------------------------------------------------------
(* get_global_forecast and get_forecast_debug *)

NoReq == [endpoint |-> "", lat |-> 0, lon |-> 0]

\* "if not (-90 <= lat <= 90) or not (-180 <= lon <= 180)"
ValidCoordinates_latonly(lat, lon) == -9000 <= lat /\ lat <= 9000

ValidCoordinates(lat, lon) ==
    /\ -9000 <= lat /\ lat <= 9000
    /\ -18000 <= lon /\ lon <= 18000

\* "results[i] if not isinstance(results[i], Exception) else None"
Unpack_raw(r) == r

Unpack(r) == IF r.kind = "exc" THEN NoneResult ELSE r

\* Python truthiness of an unpacked result: None is falsy, a non-empty dict
\* and an exception object are truthy
TruthyData(d) == d.kind # "none"

\* "if x_data:" for the first four adapters,
\* "if x_data and x_data.get('available') is not False:" for the other five
IsAvailable_truthy(a, d) == TruthyData(d)

IsAvailable(a, d) ==
    IF a \in {"stormglass", "openweather", "worldtides", "metno"}
    THEN TruthyData(d)
    ELSE TruthyData(d) /\ d.available # "false"

\* "x if x else None" for a list: an empty list is reported as null
NullIfEmpty(s) == [is_null |-> (s = <<>>), items |-> s]

RECURSIVE SumSeq(_)
SumSeq(s) == IF s = <<>> THEN 0 ELSE Head(s) + SumSeq(Tail(s))

\* "if x_data and x_data.get(field): values.append(x_data[field])" over the
\* adapters the handler reads the field from, in the handler's order
WaveOrder == <<"stormglass", "metno", "noaa_erddap", "noaa_gfs", "era5", "openmeteo">>
WindOrder == <<"stormglass", "openweather", "noaa_erddap", "noaa_gfs", "era5">>
TempOrder == <<"openweather">>

RECURSIVE Collect(_, _, _)
Collect(order, data, field) ==
    IF order = <<>> THEN <<>>
    ELSE LET d == data[Head(order)]
         IN  (IF TruthyData(d) /\ Truthy(d[field]) THEN <<d[field]>> ELSE <<>>)
             \o Collect(Tail(order), data, field)

\* round(sum(values) / len(values), digits) in hundredths, None when empty
MeanRounded(values, digits) ==
    IF values = <<>> THEN NoneVal
    ELSE IF digits = 2 THEN PyRound(SumSeq(values), Len(values))
    ELSE PyRound(SumSeq(values), Len(values) * 10) * 10

\* the text built from the wave size and wind classes
Conditions(wave_heights, wind_speeds) ==
    IF wave_heights = <<>> \/ wind_speeds = <<>> THEN "Forecast unavailable"
    ELSE LET ws == SumSeq(wave_heights) * 328084
             wn == Len(wave_heights) * 100 * 100000
             ks == SumSeq(wind_speeds) * 194384
             kn == Len(wind_speeds) * 100 * 100000
             size == IF ws < 2 * wn THEN "Small"
                     ELSE IF ws < 4 * wn THEN "2-3ft"
                     ELSE IF ws < 6 * wn THEN "4-5ft"
                     ELSE IF ws < 8 * wn THEN "6-7ft"
                     ELSE ToString(ws \div wn) \o "ft+"
             wind == IF ks < 5 * kn THEN "calm"
                     ELSE IF ks < 10 * kn THEN "light wind"
                     ELSE IF ks < 15 * kn THEN "moderate wind"
                     ELSE "strong wind"
         IN  size \o " waves, " \o wind

NoResponse ==
    [status |-> 0, sources |-> <<>>, partial |-> FALSE,
     sources_available |-> <<>>, sources_failed |-> NullIfEmpty(<<>>),
     summary |-> <<>>]

ErrorResponse(code) == [NoResponse EXCEPT !.status = code]

\* The body of get_global_forecast after the gather, for the collected
\* results res.  Calling .get on an exception object raises, which the
\* handler's "except Exception" turns into HTTP 500.
get_global_forecast(res) ==
    LET data == [a \in AdapterSet |-> Unpack(res[a])]
        avail == SelectSeq(Adapters, LAMBDA a : IsAvailable(a, data[a]))
        failed == SelectSeq(Adapters, LAMBDA a : ~IsAvailable(a, data[a]))
        wave_heights == Collect(WaveOrder, data, "wave_height_m")
        wind_speeds == Collect(WindOrder, data, "wind_speed_ms")
        temperatures == Collect(TempOrder, data, "temperature_c")
    IN  IF \E a \in AdapterSet : data[a].kind = "exc"
        THEN ErrorResponse(500)
        ELSE [status |-> 200,
              sources |-> data,
              partial |-> Len(failed) > 0,
              sources_available |-> avail,
              sources_failed |-> NullIfEmpty(failed),
              summary |-> [wave_height_m |-> MeanRounded(wave_heights, 2),
                           wind_speed_ms |-> MeanRounded(wind_speeds, 1),
                           temperature_c |-> MeanRounded(temperatures, 1),
                           tide_height_m |-> IF TruthyData(data["worldtides"])
                                             THEN data["worldtides"].current_tide_m
                                             ELSE NoneVal,
                           conditions |-> Conditions(wave_heights, wind_speeds)]]

\* normalize_result of get_forecast_debug
normalize_result(r) ==
    IF r.kind \in {"none", "exc"} THEN [r EXCEPT !.kind = "unavailable", !.available = "false"]
    ELSE r

\* "for source_name, data in source_data.items(): if data and
\* data.get('available') is not False and data.get(field) is not None":
\* the values of a field by source, in the order of source_data
RECURSIVE ValuesBySource(_, _, _)
ValuesBySource(order, source_data, field) ==
    IF order = <<>> THEN <<>>
    ELSE LET data == source_data[Head(order)]
         IN  (IF data.available # "false" /\ data[field] # NoneVal
              THEN <<[source |-> Head(order), value |-> data[field]]>>
              ELSE <<>>)
             \o ValuesBySource(Tail(order), source_data, field)

ValuesOf(values_by_source) ==
    [i \in 1..Len(values_by_source) |-> values_by_source[i].value]

\* sum((n * x - sum(values)) ** 2 for x in values), with n = len(values):
\* n * n times the sum of the squared deviations from the mean
RECURSIVE ScaledSquares(_, _, _)
ScaledSquares(values, n, total) ==
    IF values = <<>> THEN 0
    ELSE (n * Head(values) - total) * (n * Head(values) - total)
         + ScaledSquares(Tail(values), n, total)

\* "variance = sum((x - mean) ** 2 for x in values) / len(values)
\*  if len(values) > 1 else 0", as the fraction ssd / (n * n * over)
Variance_sample(values) ==
    [ssd  |-> ScaledSquares(values, Len(values), SumSeq(values)),
     n    |-> Len(values),
     over |-> IF Len(values) > 1 THEN Len(values) - 1 ELSE 1]

Variance(values) ==
    [ssd  |-> ScaledSquares(values, Len(values), SumSeq(values)),
     n    |-> Len(values),
     over |-> Len(values)]

\* the largest standard deviation, in hundredths, the readings can have
MaxStdDev == 400

\* round(math.sqrt(num / den)): the nearest integer, a tie going to the
\* even one
RoundSqrt(num, den) ==
    LET near == {k \in 0..MaxStdDev :
                   /\ (k = 0 \/ (2 * k - 1) * (2 * k - 1) * den <= 4 * num)
                   /\ 4 * num <= (2 * k + 1) * (2 * k + 1) * den}
    IN  CHOOSE k \in near : \A j \in near : j = k \/ k % 2 = 0

\* "coefficient_of_variation < pct" for pct = 10 * tens, where
\* coefficient_of_variation = std_dev / mean * 100 if mean > 0 else 0
CvBelow(values, tens) ==
    LET v == Variance(values)
        total == SumSeq(values)
    IN  total <= 0 \/ 100 * v.ssd < tens * tens * total * total * v.over

\* calculate_stats(values, name) of get_forecast_debug; mean and std_dev
\* are the rounded numbers of the returned dict, in hundredths
calculate_stats(values) ==
    IF values = <<>>
    THEN [available |-> FALSE, count |-> 0, mean |-> NoneVal, std_dev |-> NoneVal,
          agreement_level |-> ""]
    ELSE LET v == Variance(values)
         IN  [available |-> TRUE,
              count |-> Len(values),
              mean |-> PyRound(SumSeq(values), Len(values)),
              std_dev |-> RoundSqrt(v.ssd, v.n * v.n * v.over),
              agreement_level |->
                  IF CvBelow(values, 1) THEN "excellent"
                  ELSE IF CvBelow(values, 2) THEN "good"
                  ELSE IF CvBelow(values, 3) THEN "moderate"
                  ELSE "poor"]

Abs(x) == IF x < 0 THEN -x ELSE x

\* find_outliers(values_by_source, mean, std_dev): the sources whose
\* "abs(value - mean) / std_dev" is above 1.5
find_outliers(values_by_source, mean, std_dev) ==
    IF std_dev = 0 THEN <<>>
    ELSE LET flagged == SelectSeq(values_by_source,
                                  LAMBDA e : 2 * Abs(e.value - mean) > 3 * std_dev)
         IN  [i \in 1..Len(flagged) |-> flagged[i].source]

\* "find_outliers(wave_heights_by_source, wave_height_stats['mean'],
\*  wave_height_stats['std_dev']) if wave_height_stats.get('available')"
OutliersOf(values_by_source, stats) ==
    IF stats.available
    THEN find_outliers(values_by_source, stats.mean, stats.std_dev)
    ELSE <<>>

\* The body of get_forecast_debug after the gather; its response carries no
\* partial flag and no summary, and it adds the statistics of the wave
\* heights and wind speeds and the outliers among them (the wave periods,
\* treated alike, are left out)
get_forecast_debug(res) ==
    LET source_data == [a \in AdapterSet |-> normalize_result(res[a])]
        avail == SelectSeq(Adapters, LAMBDA a : source_data[a].available # "false")
        failed == SelectSeq(Adapters, LAMBDA a : source_data[a].available = "false")
        wave_heights_by_source == ValuesBySource(Adapters, source_data, "wave_height_m")
        wind_speeds_by_source == ValuesBySource(Adapters, source_data, "wind_speed_ms")
        wave_height_stats == calculate_stats(ValuesOf(wave_heights_by_source))
        wind_speed_stats == calculate_stats(ValuesOf(wind_speeds_by_source))
    IN  [status |-> 200,
         sources |-> source_data,
         partial |-> FALSE,
         sources_available |-> avail,
         sources_failed |-> NullIfEmpty(failed),
         summary |-> <<>>,
         statistics |-> [wave_height |-> wave_height_stats,
                         wind_speed |-> wind_speed_stats],
         data_quality |->
             [wave_height_outliers |->
                  NullIfEmpty(OutliersOf(wave_heights_by_source, wave_height_stats)),
              wind_speed_outliers |->
                  NullIfEmpty(OutliersOf(wind_speeds_by_source, wind_speed_stats))]]


-----------------------------------------------------------------------------
(* The aggregation request as a process *)

\* the requests offered to the endpoints: the docstring example, the
\* boundary of the valid range, and coordinates outside it
AggCoordinates == {<<3363, -11800>>, <<20000, 0>>, <<-9001, 0>>, <<0, 18001>>, <<0, -18100>>}

Endpoints == {"global", "debug"}

\* asyncio.gather(..., return_exceptions=True) never raises a child's
\* exception into the awaiting handler
GatherPropagates_first(kind) == kind = "exc"

GatherPropagates(kind) == FALSE

AggInit ==
    /\ req = NoReq
    /\ pc = "idle"
    /\ task = [a \in AdapterSet |-> "none"]
    /\ results = [a \in AdapterSet |-> NoneResult]
    /\ calls = [a \in AdapterSet |-> 0]
    /\ response = NoResponse

AdaptInit ==
    /\ now = 0
    /\ cache = [a \in CachingAdapters |-> <<>>]
    /\ creds \in {[a \in CredentialAdapters |-> b] : b \in BOOLEAN}
    /\ fetches = NoFetches
    /\ netcalls = [a \in AdapterSet |-> 0]
    /\ log = <<>>

\* The handler up to its first suspension: validation, then the gather
\* starts the nine fetches, each of which runs to its first await.
Request(e, lat, lon) ==
    /\ pc = "idle"
    /\ req' = [endpoint |-> e, lat |-> lat, lon |-> lon]
    /\ IF ~ValidCoordinates(lat, lon)
       THEN /\ pc' = "done"
            /\ response' = ErrorResponse(400)
            /\ UNCHANGED <<task, results, calls, netcalls>>
       ELSE LET head == [a \in AdapterSet |-> FetchHead(cache, creds, a, lat, lon, now)]
            IN  /\ pc' = "gathering"
                /\ task' = [a \in AdapterSet |->
                              IF head[a].how = "remote" THEN "inflight" ELSE "done"]
                /\ results' = [a \in AdapterSet |-> head[a].data]
                /\ calls' = [a \in AdapterSet |-> calls[a] + 1]
                /\ netcalls' = [a \in AdapterSet |->
                                  IF head[a].how = "remote" THEN netcalls[a] + 1
                                  ELSE netcalls[a]]
                /\ UNCHANGED response
    /\ UNCHANGED <<now, cache, creds, fetches, log>>
    /\ UNCHANGED <<schedVars, healthVars, waitVars, serviceVars, raceVars>>

\* no order of completion is being studied
NoArrival == [outcome |-> <<>>, order |-> <<>>]

\* the order of completion after the fetch of adapter a ended
Arrived(arr, a) ==
    IF arr.outcome = <<>> THEN arr ELSE [arr EXCEPT !.order = Append(@, a)]

\* The remote round of adapter a ends with kind: the fetch stores and
\* returns its result, and the gather records it at the adapter's position.
\* Where the outcomes of the fetches are fixed in advance, kind is the
\* outcome fixed for a.
Complete(a, kind) ==
    /\ task[a] = "inflight"
    /\ kind \in RemoteKinds(a)
    /\ arrival.outcome # <<>> => kind = arrival.outcome[a]
    /\ task' = [task EXCEPT ![a] = "done"]
    /\ results' = [results EXCEPT ![a] = ResultOf(a, kind)]
    /\ cache' = FetchTail(cache, a, req.lat, req.lon, now, kind)
    /\ arrival' = Arrived(arrival, a)
    /\ IF GatherPropagates(kind) /\ pc = "gathering"
       THEN /\ pc' = "done"
            /\ response' = ErrorResponse(500)
       ELSE UNCHANGED <<pc, response>>
    /\ UNCHANGED <<req, calls, now, creds, fetches, netcalls, log, probes>>
    /\ UNCHANGED <<schedVars, healthVars, waitVars, serviceVars>>

\* the position of an adapter among the arguments of the gather
PositionOf(a) == CHOOSE i \in 1..Len(Adapters) : Adapters[i] = a

\* "results = await asyncio.gather(...)": the list holds each fetch's
\* result at the position of its awaitable among the arguments, whatever
\* the order in which the fetches ended
GatherResults_ascompleted(res, order) ==
    IF Len(order) < Len(Adapters) THEN res
    ELSE [a \in AdapterSet |-> res[order[PositionOf(a)]]]

GatherResults(res, order) == res

\* All nine fetches are done: the gather resolves and the handler builds
\* the response.
Respond ==
    /\ pc = "gathering"
    /\ \A a \in AdapterSet : task[a] = "done"
    /\ pc' = "done"
    /\ response' = IF req.endpoint = "global"
                   THEN get_global_forecast(GatherResults(results, arrival.order))
                   ELSE get_forecast_debug(GatherResults(results, arrival.order))
    /\ UNCHANGED <<req, task, results, calls>>
    /\ UNCHANGED adaptVars
    /\ UNCHANGED <<schedVars, healthVars, waitVars, serviceVars, raceVars>>


-----------------------------------------------------------------------------
(* GlobalIngestionScheduler *)

\* The class is modelled as it behaves once defined.  The return annotation
\* of ingest_location names Dict, which scheduler.py does not import: where
\* annotations are evaluated eagerly (Python before 3.14) importing the
\* module raises NameError and no scheduler exists.

\* the ingestion sources, in the order of ingest_location's gather
Sources == <<"noaa", "stormglass", "openweather", "tides", "metno">>

SourceSet == {Sources[i] : i \in 1..Len(Sources)}

\* seconds between two cycles
INGESTION_INTERVAL == 3600

\* seconds slept after an unexpected error in the loop
ERROR_BACKOFF == 300

\* seconds slept after each location
LOCATION_DELAY == 3

\* the buoy stations that can be in the database
Stations == <<"41001", "46042">>

StationSet == {Stations[i] : i \in 1..Len(Stations)}

\* record counts an ingest_data() call can return
Counts == {2}

IdleIngest == [s \in SourceSet |-> [st |-> "idle", n |-> 0]]

ZeroCounts == [s \in SourceSet |-> 0]

\* self.task and the position of run_periodic_ingestion:
\*   task: "none" (self.task is None) | "pending" | "finished" (returned)
\*         | "cancelled" (ended with CancelledError)
\*   at:   the await the coroutine is suspended at: "start" (not yet run),
\*         "load", "gather", "loc_sleep", "interval_sleep", "backoff_sleep",
\*         or "end"
\*   cancel: task.cancel() was called and CancelledError is not yet delivered
LoopInit ==
    [task |-> "none", at |-> "end", cancel |-> FALSE,
     buoy_locations |-> <<>>, idx |-> 0,
     total_counts |-> ZeroCounts, sleep_for |-> 0]

\* bound of the exploration: the restarts of the scheduler that are counted
MaxLives == 1

\* stands for the station table before the loop task's first reload
NotLoaded == {"not loaded"}

\* what the properties need to know of the past of the current loop task
HistInit ==
    [orphans |-> 0,           \* unfinished loop tasks self.task no longer names
     start_noop |-> FALSE,    \* start() was called while the task was alive
     stop_at |-> "none",      \* where the loop was when stop() cancelled it
     stop_inflight |-> {},    \* the ingest calls in flight at that moment
     work_after_stop |-> FALSE, \* a location or cycle began after that moment
     raised |-> FALSE,        \* an ingest call raised in the current cycle
     finished |-> 0,          \* ingest calls that ran to their end in the current cycle
     after_backoff |-> FALSE, \* the reload under way follows the error backoff
     db_at_load |-> NotLoaded, \* the station table as the last reload found it
     reloaded_new |-> FALSE,  \* the loop's last step was a reload that found another
                              \* list than the reload before it
     processed |-> <<>>,      \* the stations ingest_location was called for in the current cycle
     overlap |-> FALSE,       \* a location began while an ingest call of another was in flight
     slept |-> 0,             \* the sleep that returned right before the current location began
     results |-> <<>>,        \* per location of the current cycle, how each ingest call ended
     load |-> "none",         \* the reload of the current cycle: "none" (not yet ended),
                              \* "raised", "empty" or "some"
     lives |-> 0]             \* loops spawned after a stop() that had cancelled a loop
                              \* returned, counted up to MaxLives

SchedInit ==
    /\ is_running = FALSE
    /\ loop = LoopInit
    /\ ingest = IdleIngest
    /\ storage \in SUBSET StationSet
    /\ stopper = "idle"
    /\ hist = HistInit

\* "if not self.task or self.task.done()"
StartSpawns_always(t) == TRUE

StartSpawns_once(t) == t = "none"

StartSpawns(t) == t \in {"none", "finished", "cancelled"}

\* start(): spawn the periodic loop unless one is alive
start ==
    /\ IF StartSpawns(loop.task)
       THEN /\ loop' = [LoopInit EXCEPT !.task = "pending", !.at = "start"]
            /\ ingest' = IdleIngest
            /\ hist' = [HistInit EXCEPT
                          !.orphans = hist.orphans + IF loop.task = "pending" THEN 1 ELSE 0,
                          !.lives = IF /\ stopper = "returned" /\ hist.stop_at # "none"
                                       /\ hist.lives < MaxLives
                                    THEN hist.lives + 1 ELSE hist.lives]
       ELSE /\ hist' = [hist EXCEPT !.start_noop = TRUE]
            /\ UNCHANGED <<loop, ingest>>
    /\ UNCHANGED <<is_running, storage, stopper>>
    /\ UNCHANGED <<aggVars, adaptVars, healthVars, waitVars, serviceVars, raceVars>>

\* "while self.is_running:" followed by the start of run_full_ingestion,
\* up to the await of the database query in load_buoy_locations
EnterCycle(l, running) ==
    IF running
    THEN [l EXCEPT !.at = "load", !.sleep_for = 0, !.idx = 0,
                   !.total_counts = ZeroCounts]
    ELSE [l EXCEPT !.at = "end", !.sleep_for = 0, !.task = "finished"]

\* the history after the loop began a cycle or a location
Began(h) == [h EXCEPT !.work_after_stop = @ \/ h.stop_at # "none"]

\* The first step of the loop task: is_running = True, then the first cycle
LoopBegin ==
    /\ loop.task = "pending" /\ loop.at = "start" /\ ~loop.cancel
    /\ is_running' = TRUE
    /\ loop' = EnterCycle(loop, TRUE)
    /\ hist' = [Began(hist) EXCEPT !.raised = FALSE, !.finished = 0,
                                   !.processed = <<>>, !.reloaded_new = FALSE,
                                   !.results = <<>>, !.load = "none"]
    /\ UNCHANGED <<ingest, storage, stopper>>
    /\ UNCHANGED <<aggVars, adaptVars, healthVars, waitVars, serviceVars, raceVars>>

\* the stations of the database as the list the query returns
RECURSIVE StationList(_, _)
StationList(i, db) ==
    IF i > Len(Stations) THEN <<>>
    ELSE (IF Stations[i] \in db THEN <<Stations[i]>> ELSE <<>>) \o StationList(i + 1, db)

\* "self.buoy_locations = [... for station in stations]": the list is
\* rebuilt from the rows the query of this call returned, whatever the
\* attribute held before
LoadedLocations_kept(old, db) == IF old # <<>> THEN old ELSE StationList(1, db)

LoadedLocations(old, db) == StationList(1, db)

\* the history after ingest_location was called for station st, following
\* a sleep of d seconds, with the ingest calls ing of the location before
Called(h, st, d, ing) ==
    [h EXCEPT !.processed = Append(@, st),
              !.results = Append(@, [s \in SourceSet |-> [st |-> "inflight", n |-> 0]]),
              !.slept = d,
              !.overlap = @ \/ \E s \in SourceSet : ing[s].st = "inflight"]

\* ingest_location up to its gather: the five ingest_data() calls start
StartLocation(l, i) == [l EXCEPT !.at = "gather", !.idx = i, !.sleep_for = 0]

AllInflight == [s \in SourceSet |-> [st |-> "inflight", n |-> 0]]

\* "except Exception as e: logger.error(...); await asyncio.sleep(300)":
\* an exception that leaves the try block of the loop body is caught and
\* the loop sleeps the backoff inside the while
OnLoopException_terminates(l) == [l EXCEPT !.task = "finished", !.at = "end", !.sleep_for = 0]

OnLoopException(l) == [l EXCEPT !.at = "backoff_sleep", !.sleep_for = ERROR_BACKOFF]

\* "if not self.buoy_locations: logger.warning(...); return": the cycle
\* ends there without an exception and the loop goes on to
\* "await asyncio.sleep(INGESTION_INTERVAL)"
OnEmptyReload_backoff(l) == OnLoopException(l)

OnEmptyReload(l) == [l EXCEPT !.at = "interval_sleep", !.sleep_for = INGESTION_INTERVAL]

\* The database query of load_buoy_locations returns or raises.  An
\* exception leaves run_full_ingestion and is caught by the loop's
\* "except Exception", which sleeps the backoff.
LoadDone(ok) ==
    /\ loop.task = "pending" /\ loop.at = "load" /\ ~loop.cancel
    /\ IF ~ok
       THEN /\ loop' = OnLoopException(loop)
            /\ hist' = [hist EXCEPT !.after_backoff = FALSE, !.load = "raised"]
            /\ UNCHANGED ingest
       ELSE LET locations == LoadedLocations(loop.buoy_locations, storage)
                loaded == [hist EXCEPT !.after_backoff = FALSE,
                                       !.load = IF storage = {} THEN "empty" ELSE "some",
                                       !.db_at_load = storage,
                                       !.reloaded_new = /\ hist.db_at_load # NotLoaded
                                                        /\ locations # loop.buoy_locations]
            IN  IF locations = <<>>
                THEN /\ loop' = OnEmptyReload([loop EXCEPT !.buoy_locations = locations])
                     /\ hist' = loaded
                     /\ UNCHANGED ingest
                ELSE /\ loop' = [StartLocation(loop, 1) EXCEPT
                                     !.buoy_locations = locations,
                                     !.total_counts = ZeroCounts]
                     /\ ingest' = AllInflight
                     /\ hist' = Called(Began(loaded), locations[1], 0, ingest)
    /\ UNCHANGED <<is_running, storage, stopper>>
    /\ UNCHANGED <<aggVars, adaptVars, healthVars, waitVars, serviceVars, raceVars>>

\* asyncio.gather(..., return_exceptions=True) in ingest_location never
\* raises an ingest_data() exception into ingest_location
IngestGatherPropagates_first(kind) == kind = "raised"

IngestGatherPropagates(kind) == FALSE

\* One ingest_data() call of the current location ends: it returns a record
\* count or raises.
IngestDone(s, kind, n) ==
    /\ loop.task = "pending" /\ loop.at = "gather" /\ ~loop.cancel
    /\ ingest[s].st = "inflight"
    /\ kind \in {"returned", "raised"}
    /\ IF kind = "raised" THEN n = 0 ELSE n \in Counts
    /\ ingest' = [ingest EXCEPT ![s] = [st |-> kind, n |-> n]]
    /\ hist' = [hist EXCEPT !.raised = @ \/ kind = "raised", !.finished = @ + 1,
                            !.reloaded_new = FALSE,
                            !.results[Len(hist.results)][s] = [st |-> kind, n |-> n]]
    /\ IF IngestGatherPropagates(kind)
       THEN \* the exception reaches ingest_location's "except Exception",
            \* which returns {}; the loop goes on to the per-location sleep
            loop' = [loop EXCEPT !.at = "loc_sleep", !.sleep_for = LOCATION_DELAY]
       ELSE UNCHANGED loop
    /\ UNCHANGED <<is_running, storage, stopper>>
    /\ UNCHANGED <<aggVars, adaptVars, healthVars, waitVars, serviceVars, raceVars>>

\* "results[i] if not isinstance(results[i], Exception) else 0"
CountOf(r) == IF r.st = "returned" THEN r.n ELSE 0

\* "for source, count in counts.items(): ... total_counts[source] += count"
AddCounts_last(total, ing) == [s \in SourceSet |-> CountOf(ing[s])]

AddCounts(total, ing) == [s \in SourceSet |-> total[s] + CountOf(ing[s])]

\* "results = await asyncio.gather(...)": the gather resolves when all five
\* ingest_data() calls have ended
GatherResolved_first(ing) == \E s \in SourceSet : ing[s].st \in {"returned", "raised"}

GatherResolved(ing) == \A s \in SourceSet : ing[s].st \in {"returned", "raised"}

\* The gather of ingest_location resolves: counts are parsed and added to
\* total_counts, then run_full_ingestion sleeps the per-location delay.
GatherDone ==
    /\ loop.task = "pending" /\ loop.at = "gather" /\ ~loop.cancel
    /\ GatherResolved(ingest)
    /\ loop' = [loop EXCEPT
                  !.total_counts = AddCounts(@, ingest),
                  !.at = "loc_sleep",
                  !.sleep_for = LOCATION_DELAY]
    /\ ingest' = [s \in SourceSet |->
                     IF ingest[s].st = "inflight" THEN ingest[s]
                     ELSE [st |-> "idle", n |-> 0]]
    /\ UNCHANGED <<is_running, storage, stopper, hist>>
    /\ UNCHANGED <<aggVars, adaptVars, healthVars, waitVars, serviceVars, raceVars>>

\* asyncio.sleep(3) returns: the next location, or the end of the cycle and
\* the interval sleep
LocSleepDone ==
    /\ loop.task = "pending" /\ loop.at = "loc_sleep" /\ ~loop.cancel
    /\ IF loop.idx < Len(loop.buoy_locations)
       THEN /\ loop' = StartLocation(loop, loop.idx + 1)
            /\ ingest' = AllInflight
            /\ hist' = Called(Began(hist), loop.buoy_locations[loop.idx + 1],
                           loop.sleep_for, ingest)
       ELSE /\ loop' = [loop EXCEPT !.at = "interval_sleep",
                                    !.sleep_for = INGESTION_INTERVAL]
            /\ UNCHANGED <<ingest, hist>>
    /\ UNCHANGED <<is_running, storage, stopper>>
    /\ UNCHANGED <<aggVars, adaptVars, healthVars, waitVars, serviceVars, raceVars>>

\* asyncio.sleep(INGESTION_INTERVAL) or asyncio.sleep(300) returns: back to
\* "while self.is_running"
SleepDone ==
    /\ loop.task = "pending" /\ loop.at \in {"interval_sleep", "backoff_sleep"}
    /\ ~loop.cancel
    /\ loop' = EnterCycle(loop, is_running)
    /\ ingest' = IdleIngest
    /\ hist' = [(IF is_running THEN Began(hist) ELSE hist) EXCEPT
                   !.raised = FALSE, !.finished = 0,
                   !.after_backoff = (is_running /\ loop.at = "backoff_sleep"),
                   !.processed = <<>>, !.reloaded_new = FALSE,
                   !.results = <<>>, !.load = "none"]
    /\ UNCHANGED <<is_running, storage, stopper>>
    /\ UNCHANGED <<aggVars, adaptVars, healthVars, waitVars, serviceVars, raceVars>>

\* where a CancelledError is caught by run_periodic_ingestion's
\* "except asyncio.CancelledError: break": the awaits inside its try block
InsideTry == {"load", "gather", "loc_sleep", "interval_sleep"}

\* "if self.task and not self.task.done()": is_running = False,
\* task.cancel(), then await the task
stop ==
    /\ stopper # "awaiting"
    /\ IF loop.task = "pending"
       THEN /\ is_running' = FALSE
            /\ loop' = [loop EXCEPT !.cancel = TRUE]
            /\ stopper' = "awaiting"
            /\ hist' = [hist EXCEPT
                          !.stop_at = loop.at,
                          !.stop_inflight = {s \in SourceSet : ingest[s].st = "inflight"}]
       ELSE /\ stopper' = "returned"
            /\ UNCHANGED <<is_running, loop, hist>>
    /\ UNCHANGED <<ingest, storage>>
    /\ UNCHANGED <<aggVars, adaptVars, healthVars, waitVars, serviceVars, raceVars>>

\* how the loop task ends when CancelledError is thrown in at position at:
\* a task that never ran and the backoff sleep (which is inside the except
\* handler) let it escape; inside the try block it is caught and the loop
\* breaks
EndOnCancel(at) == IF at \in InsideTry THEN "finished" ELSE "cancelled"

\* what cancelling the loop task does to an ingest_data() call in flight:
\* the gather cancels its children
CancelChild_shielded(r) == IF r.st = "inflight" THEN [st |-> "returned", n |-> 0] ELSE r

CancelChild(r) == IF r.st = "inflight" THEN [st |-> "cancelled", n |-> 0] ELSE r

\* The event loop delivers the cancellation at the await the loop task is
\* suspended at.
CancelDelivered ==
    /\ loop.task = "pending" /\ loop.cancel
    /\ loop' = [loop EXCEPT !.task = EndOnCancel(loop.at), !.cancel = FALSE,
                            !.at = "end", !.sleep_for = 0]
    /\ ingest' = [s \in SourceSet |-> CancelChild(ingest[s])]
    /\ UNCHANGED <<is_running, storage, stopper, hist>>
    /\ UNCHANGED <<aggVars, adaptVars, healthVars, waitVars, serviceVars, raceVars>>

\* "try: await self.task / except asyncio.CancelledError: pass"
StopAwait_nocatch(t) == IF t = "cancelled" THEN "raised" ELSE "returned"

StopAwait(t) == "returned"

\* stop() resumes once the loop task is done
StopResume ==
    /\ stopper = "awaiting"
    /\ loop.task \in {"finished", "cancelled"}
    /\ stopper' = StopAwait(loop.task)
    /\ UNCHANGED <<is_running, loop, ingest, storage, hist>>
    /\ UNCHANGED <<aggVars, adaptVars, healthVars, waitVars, serviceVars, raceVars>>

\* A station is added to or removed from the database: between cycles,
\* while the reload is awaited, or during a cycle in the delay after a
\* location.  (An edit during a gather is seen by the scheduler exactly as
\* one made in the delay that follows it.)
EditStations(st) ==
    /\ st \in StationSet
    /\ loop.at \in {"start", "end", "interval_sleep", "backoff_sleep", "load", "loc_sleep"}
    /\ storage' = IF st \in storage THEN storage \ {st} ELSE storage \cup {st}
    /\ UNCHANGED <<is_running, loop, ingest, stopper, hist>>
    /\ UNCHANGED <<aggVars, adaptVars, healthVars, waitVars, serviceVars, raceVars>>

-----------------------------------------------------------------------------
(* The health endpoint: health_check of routers/forecast.py *)

\* seconds a health snapshot is served from _health_cache
_health_cache_ttl == 300

\* bounds of the exploration
MaxHealthRequests == 2
MaxHealthTicks == 2
MaxDown == 1

\* seconds the clock advances by when the health endpoint is studied: half
\* the snapshot TTL
HealthTickSeconds == _health_cache_ttl \div 2

\* the coordinates the health check of a caching adapter fetches
HealthCoordinates(a) ==
    CASE a = "noaa_erddap"       -> <<0, 0>>
      [] a = "noaa_gfs"          -> <<2000, -16000>>
      [] a = "era5"              -> <<4000, -3000>>
      [] a = "openmeteo"         -> <<0, 0>>
      [] a = "copernicus_marine" -> <<3000, -4000>>

\* How health_check_<a>() begins at time t.  The checks of api_clients.py
\* make a GET of their own under HEALTH_CHECK_TIMEOUT ("get"); the other
\* five call the adapter's fetch function at fixed coordinates ("fetch"),
\* which answers from its result cache when it can; health_check_era5
\* answers at once when CDSAPI_KEY is not set.
health_check_head(c, cr, a, t) ==
    IF a \notin CachingAdapters THEN [how |-> "remote", via |-> "get"]
    ELSE IF a = "era5" /\ ~cr[a] THEN [how |-> "unconfigured", via |-> "none"]
    ELSE [how |-> FetchHead(c, cr, a, HealthCoordinates(a)[1],
                            HealthCoordinates(a)[2], t).how,
          via |-> "fetch"]

\* the sets of providers that are down while one snapshot is computed
DownSets == {D \in SUBSET AdapterSet : Cardinality(D) <= MaxDown}

\* how the remote round of each health check ends: the provider answered
\* ("up"), or it did not (status, transport or parse error, timeout)
OutcomeOf(down) == [a \in AdapterSet |-> IF a \in down THEN "down" ELSE "up"]

\* the kind of fetch result a remote round of the adapter's fetch yields
FetchKindOf(a, outcome) ==
    IF outcome = "up" THEN "obs"
    ELSE IF a = "noaa_gfs" THEN "unavailable" ELSE "none"

\* The "ok" of the dict health_check_<a>() returns.  api_clients: the GET
\* answered 200.  The others: "if result and result.get('available')" of
\* what the fetch returned, a cached observation included.
health_check_ok(c, cr, a, t, outcome) ==
    LET head == health_check_head(c, cr, a, t)
    IN  CASE head.how = "remote"       -> outcome = "up"
          [] head.how = "hit"          -> TRUE
          [] head.how = "unconfigured" -> FALSE

\* the adapter caches after the nine health checks that began at time t
HealthFetchTail(c, cr, t, outcome) ==
    [a \in CachingAdapters |->
        LET head == health_check_head(c, cr, a, t)
        IN  IF head.how = "remote" /\ head.via = "fetch"
            THEN FetchTail(c, a, HealthCoordinates(a)[1], HealthCoordinates(a)[2],
                           t, FetchKindOf(a, outcome[a]))[a]
            ELSE c[a]]

\* "overall_status = 'ok' if all(all_services) else 'degraded'", where
\* all_services holds the nine "ok" values and db_ok
overall_status_nodb(ok, db_ok) ==
    IF \A a \in AdapterSet : ok[a] THEN "ok" ELSE "degraded"

overall_status(ok, db_ok) ==
    IF (\A a \in AdapterSet : ok[a]) /\ db_ok THEN "ok" ELSE "degraded"

\* "status_code = 207 if overall_status == 'degraded' else 200"
status_code(status) == IF status = "degraded" THEN 207 ELSE 200

\* Both returns of health_check hand FastAPI the dict alone: the route sets
\* no status code and the handler's status_code is never passed on, so the
\* answer goes out with the default 200.
HttpStatusOfReturn(body, code) == 200

NoSnapshot ==
    [status |-> "", services |-> [a \in AdapterSet |-> FALSE],
     database |-> FALSE, failed_services |-> NullIfEmpty(<<>>), timestamp |-> NoneVal]

\* the response dict built from the probe results
HealthSnapshot(ok, db_ok, t) ==
    [status |-> overall_status(ok, db_ok),
     services |-> ok,
     database |-> db_ok,
     failed_services |->
         NullIfEmpty(SelectSeq(Adapters, LAMBDA a : ~ok[a])
                     \o (IF db_ok THEN <<>> ELSE <<"database">>)),
     timestamp |-> t]

\* "_health_cache = {'timestamp': request_start, 'data': response}": the
\* snapshot is replaced, whatever the cache held
HealthCachePut_newest(hc, t, snapshot) ==
    IF hc.timestamp # NoneVal /\ hc.timestamp >= t THEN hc
    ELSE [timestamp |-> t, data |-> snapshot]

HealthCachePut(hc, t, snapshot) == [timestamp |-> t, data |-> snapshot]

\* "if _health_cache['timestamp']: ... if cache_age < _health_cache_ttl"
HealthCacheFresh_never(hc, t) == FALSE

HealthCacheFresh(hc, t) ==
    /\ hc.timestamp # NoneVal
    /\ t - hc.timestamp < _health_cache_ttl

\* the answer to a health request and what serving it did:
\*   http: the HTTP status; body: the snapshot returned;
\*   from_cache: the body is _health_cache["data"];
\*   found_age: age of the cached snapshot at request_start, -1 without one;
\*   db_probed: the storage probe ran; probed: the health checks that ran;
\*   remote: the health checks that made a remote call;
\*   via_fetch: the health checks that called the adapter's fetch function;
\*   fresh: the adapters whose result cache held an entry younger than
\*          CACHE_TTL for the health coordinates at request_start;
\*   db_ok: what the storage probe found
NoHealthResponse ==
    [http |-> 0, body |-> NoSnapshot, from_cache |-> FALSE, found_age |-> -1,
     db_probed |-> FALSE, probed |-> {}, remote |-> {}, via_fetch |-> {},
     fresh |-> {}, db_ok |-> FALSE]

HealthInit ==
    /\ _health_cache = [timestamp |-> NoneVal, data |-> NoSnapshot]
    /\ health_pc = "idle"
    /\ request_start = 0
    /\ health_served = 0
    /\ health_response = NoHealthResponse

\* the clock advances between two health requests
HealthTick ==
    /\ health_pc # "probing"
    /\ now < MaxHealthTicks * HealthTickSeconds
    /\ now' = now + HealthTickSeconds
    /\ UNCHANGED <<cache, creds, fetches, netcalls, log>>
    /\ UNCHANGED healthVars
    /\ UNCHANGED <<aggVars, schedVars, waitVars, serviceVars, raceVars>>

\* GET /api/forecast/health arrives: a fresh cached snapshot is returned at
\* once, otherwise the handler goes on to the probes
HealthRequest ==
    /\ health_pc # "probing"
    /\ health_served < MaxHealthRequests
    /\ request_start' = now
    /\ IF HealthCacheFresh(_health_cache, now)
       THEN /\ health_pc' = "done"
            /\ health_served' = health_served + 1
            /\ health_response' =
                   [NoHealthResponse EXCEPT
                       !.http = HttpStatusOfReturn(_health_cache.data,
                                                   status_code(_health_cache.data.status)),
                       !.body = _health_cache.data,
                       !.from_cache = TRUE,
                       !.found_age = now - _health_cache.timestamp]
       ELSE /\ health_pc' = "probing"
            /\ health_response' =
                   [NoHealthResponse EXCEPT
                       !.found_age = IF _health_cache.timestamp = NoneVal THEN -1
                                     ELSE now - _health_cache.timestamp]
            /\ UNCHANGED health_served
    /\ UNCHANGED _health_cache
    /\ UNCHANGED adaptVars
    /\ UNCHANGED <<aggVars, schedVars, waitVars, serviceVars, raceVars>>

\* The rest of the handler: the storage probe, the gather of the nine
\* health checks, the snapshot, the update of _health_cache and the return.
\* The nine checks share no state, so the order in which they end is left
\* out.  Each health_check_* catches every Exception and returns a dict.
HealthCompute(db_ok, down) ==
    /\ health_pc = "probing"
    /\ LET t == request_start
           outcome == OutcomeOf(down)
           head == [a \in AdapterSet |-> health_check_head(cache, creds, a, t)]
           ok == [a \in AdapterSet |-> health_check_ok(cache, creds, a, t, outcome[a])]
           snapshot == HealthSnapshot(ok, db_ok, t)
       IN  /\ cache' = HealthFetchTail(cache, creds, t, outcome)
           /\ _health_cache' = HealthCachePut(_health_cache, t, snapshot)
           /\ health_response' =
                  [health_response EXCEPT
                      !.http = HttpStatusOfReturn(snapshot, status_code(snapshot.status)),
                      !.body = snapshot,
                      !.db_probed = TRUE,
                      !.db_ok = db_ok,
                      !.probed = AdapterSet,
                      !.remote = {a \in AdapterSet : head[a].how = "remote"},
                      !.via_fetch = {a \in AdapterSet : head[a].via = "fetch"},
                      !.fresh = {a \in CachingAdapters :
                                    CacheHit(cache, a,
                                             _get_cache_key(a, HealthCoordinates(a)[1],
                                                            HealthCoordinates(a)[2]), t)}]
    /\ health_pc' = "done"
    /\ health_served' = health_served + 1
    /\ UNCHANGED <<now, creds, fetches, netcalls, log, request_start>>
    /\ UNCHANGED <<aggVars, schedVars, waitVars, serviceVars, raceVars>>

-----------------------------------------------------------------------------
(* Timeouts of the remote attempts of a fetch *)

\* the timeout of each adapter's remote attempt, in seconds
API_TIMEOUT == 10
ERDDAP_TIMEOUT == 10
OPENMETEO_TIMEOUT == 10
GFS_TIMEOUT == 15
CMEMS_TIMEOUT == 15
ERA5_TIMEOUT == 60

FetchTimeout(a) ==
    CASE a \in {"stormglass", "openweather", "worldtides", "metno"} -> API_TIMEOUT
      [] a = "noaa_erddap"       -> ERDDAP_TIMEOUT
      [] a = "openmeteo"         -> OPENMETEO_TIMEOUT
      [] a = "noaa_gfs"          -> GFS_TIMEOUT
      [] a = "copernicus_marine" -> CMEMS_TIMEOUT
      [] a = "era5"              -> ERA5_TIMEOUT

\* fetch_noaa_gfs tries the model cycles of the last 30 hours, and for each
\* cycle seven forecast hours, one GET after the other
GfsCycles == 6
GfsForecastHours == 7

\* The remote attempts one fetch makes at most.  Every adapter but noaa_gfs
\* makes one request and returns None when it times out; noaa_gfs answers
\* a timeout with "continue" and tries the next combination.
MaxAttempts_retry(a) == 2

MaxAttempts(a) == IF a = "noaa_gfs" THEN GfsCycles * GfsForecastHours ELSE 1

\* what a fetch returns when its last attempt timed out
TimedOutKind(a) == IF a = "noaa_gfs" THEN "unavailable" ELSE "none"

\* A remote attempt of adapter a's fetch ends in a timeout: the fetch
\* returns, or noaa_gfs goes on to its next attempt.
AttemptTimesOut(a) ==
    /\ task[a] = "inflight"
    /\ timeouts[a] < MaxAttempts(a)
    /\ timeouts' = [timeouts EXCEPT ![a] = @ + 1]
    /\ IF timeouts[a] + 1 = MaxAttempts(a)
       THEN /\ task' = [task EXCEPT ![a] = "done"]
            /\ results' = [results EXCEPT ![a] = ResultOf(a, TimedOutKind(a))]
       ELSE UNCHANGED <<task, results>>
    /\ UNCHANGED <<req, pc, calls, response>>
    /\ UNCHANGED <<adaptVars, schedVars, healthVars, serviceVars, raceVars>>

-----------------------------------------------------------------------------
(* The legacy ingestion service and the ingest endpoints of status.py *)

\* the buoy stations the service is constructed with
BUOY_STATIONS == <<"41043", "42085", "42059", "42003", "46023", "46218", "51201">>

\* "ingestion_service = IngestionService()".  Nothing in the application
\* calls its start(): main.py starts and stops scheduler.global_scheduler.
IngestionServiceInit ==
    [buoy_stations |-> BUOY_STATIONS, is_running |-> FALSE, task |-> "none"]

\* GET /api/ingest/status:
\* "running" if ingestion_service.is_running else "stopped"
ingestion_status(svc) ==
    [status |-> IF svc.is_running THEN "running" ELSE "stopped",
     buoy_stations |-> svc.buoy_stations]

\* the run of trigger_ingestion:
\*   pc: "idle" | "ingest" (awaiting ingest_data of station idx) |
\*       "sleep" (awaiting asyncio.sleep(2)) | "done"
\*   stations: the list ingest_all_buoys iterates
\*   total_inserted: the local of ingest_all_buoys
\*   log: the ingest_data() calls made, with how each ended
\*   response: the JSON answered, records_inserted -1 before
TriggerIdle ==
    [pc |-> "idle", stations |-> <<>>, idx |-> 0, total_inserted |-> 0,
     log |-> <<>>,
     response |-> [status |-> "", records_inserted |-> -1, buoys_processed |-> -1]]

ServiceInit ==
    /\ ingestion_service = IngestionServiceInit
    /\ trigger = TriggerIdle

\* "for buoy_id in self.buoy_stations": the stations one pass goes over
TriggerLocations_fromdb(svc, db) == StationList(1, db)

TriggerLocations(svc, db) == svc.buoy_stations

\* the ingesters ingest_all_buoys runs for a station: NOAABuoyIngester alone
TriggerSources == {"noaa"}

\* the run after the loop moved on from station idx: the next station, or
\* the return of ingest_all_buoys and the response of the handler
TriggerAdvance(t, svc) ==
    IF t.idx < Len(t.stations)
    THEN [t EXCEPT !.pc = "ingest", !.idx = @ + 1]
    ELSE [t EXCEPT !.pc = "done",
                   !.response = [status |-> "success",
                                 records_inserted |-> t.total_inserted,
                                 buoys_processed |-> Len(svc.buoy_stations)]]

\* POST /api/ingest/trigger arrives: ingest_all_buoys begins with the first
\* station
trigger_ingestion ==
    /\ trigger.pc = "idle"
    /\ trigger' = TriggerAdvance(
                      [TriggerIdle EXCEPT
                          !.stations = TriggerLocations(ingestion_service, storage)],
                      ingestion_service)
    /\ UNCHANGED ingestion_service
    /\ UNCHANGED <<aggVars, adaptVars, schedVars, healthVars, waitVars, raceVars>>

\* ingest_data() of the current station returns a count, which is added to
\* total_inserted before the 2 s sleep, or raises, which "except Exception:
\* continue" answers by going on to the next station
TriggerIngestDone(kind, n) ==
    /\ trigger.pc = "ingest"
    /\ kind \in {"returned", "raised"}
    /\ IF kind = "raised" THEN n = 0 ELSE n \in Counts
    /\ LET entry == [station |-> trigger.stations[trigger.idx],
                     sources |-> TriggerSources, kind |-> kind, n |-> n]
           logged == [trigger EXCEPT !.log = Append(@, entry)]
       IN  trigger' = IF kind = "returned"
                      THEN [logged EXCEPT !.total_inserted = @ + n, !.pc = "sleep"]
                      ELSE TriggerAdvance(logged, ingestion_service)
    /\ UNCHANGED ingestion_service
    /\ UNCHANGED <<aggVars, adaptVars, schedVars, healthVars, waitVars, raceVars>>

\* asyncio.sleep(2) returns
TriggerSleepDone ==
    /\ trigger.pc = "sleep"
    /\ trigger' = TriggerAdvance(trigger, ingestion_service)
    /\ UNCHANGED ingestion_service
    /\ UNCHANGED <<aggVars, adaptVars, schedVars, healthVars, waitVars, raceVars>>

-----------------------------------------------------------------------------
(* Specifications *)

NoTimeouts == [a \in AdapterSet |-> 0]

IdleHealth == HealthInit

IdleWait == timeouts = NoTimeouts

IdleService == ServiceInit

IdleRace == arrival = NoArrival /\ probes = <<>>

IdleAgg == AggInit

IdleAdapt ==
    /\ now = 0
    /\ cache = [a \in CachingAdapters |-> <<>>]
    /\ creds = [a \in CredentialAdapters |-> TRUE]
    /\ fetches = NoFetches
    /\ netcalls = [a \in AdapterSet |-> 0]
    /\ log = <<>>

IdleSched ==
    /\ is_running = FALSE
    /\ loop = LoopInit
    /\ ingest = IdleIngest
    /\ storage = {}
    /\ stopper = "idle"
    /\ hist = HistInit

\* one aggregation request against empty caches
InitAgg ==
    AggInit /\ AdaptInit /\ IdleSched /\ IdleHealth /\ IdleWait /\ IdleService /\ IdleRace

NextAgg ==
    \/ \E e \in Endpoints, c \in AggCoordinates : Request(e, c[1], c[2])
    \/ \E a \in AdapterSet, k \in {"obs", "unavailable", "none", "exc"} : Complete(a, k)
    \/ Respond

SpecAgg == InitAgg /\ [][NextAgg]_vars

\* the scheduler under start(), stop() and edits of the station table
InitSched ==
    IdleAgg /\ IdleAdapt /\ SchedInit /\ IdleHealth /\ IdleWait /\ IdleService /\ IdleRace

NextSched ==
    \/ start
    \/ stop
    \/ LoopBegin
    \/ \E ok \in BOOLEAN : LoadDone(ok)
    \/ \E s \in SourceSet, k \in {"returned", "raised"}, n \in Counts \cup {0} :
           IngestDone(s, k, n)
    \/ GatherDone
    \/ LocSleepDone
    \/ SleepDone
    \/ CancelDelivered
    \/ StopResume
    \/ \E st \in StationSet : EditStations(st)

SpecSched == InitSched /\ [][NextSched]_vars

\* the fetches of one adapter, issued over time by its callers
InitCache ==
    IdleAgg /\ CacheInit /\ IdleSched /\ IdleHealth /\ IdleWait /\ IdleService /\ IdleRace

NextCache ==
    \/ Tick
    \/ \E i \in 1..MaxConcurrent, c \in CacheCoordinates : FetchStart(i, c[1], c[2])
    \/ \E i \in 1..MaxConcurrent, k \in {"obs", "unavailable", "none", "exc"} :
           FetchFinish(i, k)

SpecCache == InitCache /\ [][NextCache]_vars

\* health requests over time, the ERA5 key and the Copernicus credentials
\* set or not
InitHealth ==
    /\ IdleAgg /\ IdleSched /\ IdleWait /\ IdleService /\ IdleRace
    /\ now = 0
    /\ cache = [a \in CachingAdapters |-> <<>>]
    /\ creds \in [CredentialAdapters -> BOOLEAN]
    /\ fetches = NoFetches
    /\ netcalls = [a \in AdapterSet |-> 0]
    /\ log = <<>>
    /\ HealthInit

NextHealth ==
    \/ HealthTick
    \/ HealthRequest
    \/ \E db_ok \in BOOLEAN, down \in DownSets : HealthCompute(db_ok, down)

SpecHealth == InitHealth /\ [][NextHealth]_vars

\* one request to get_global_forecast whose remote attempts succeed or time
\* out (get_forecast_debug awaits the same gather of the same nine fetches)
InitWait ==
    AggInit /\ IdleAdapt /\ IdleSched /\ IdleHealth /\ IdleWait /\ IdleService /\ IdleRace

NextWait ==
    \/ Request("global", 3363, -11800)
    \/ \E a \in AdapterSet : AttemptTimesOut(a)
    \/ \E a \in AdapterSet : Complete(a, "obs")
    \/ Respond

SpecWait == InitWait /\ [][NextWait]_vars

\* one POST /api/ingest/trigger, whatever stations the database holds
InitTrigger ==
    /\ IdleAgg /\ IdleAdapt /\ IdleHealth /\ IdleWait /\ IdleRace
    /\ SchedInit
    /\ ServiceInit

NextTrigger ==
    \/ trigger_ingestion
    \/ \E k \in {"returned", "raised"}, n \in Counts \cup {0} : TriggerIngestDone(k, n)
    \/ TriggerSleepDone

SpecTrigger == InitTrigger /\ [][NextTrigger]_vars

-----------------------------------------------------------------------------
(* Concurrent requests to the health endpoint *)

\* One health request among several served at once:
\*   st: "free" | "probing" (suspended in the storage probe or the gather of
\*       the health checks) | "done";
\*   request_start: its request_start;
\*   from_cache: it returned _health_cache["data"];
\*   overlap: another request was probing when it found the snapshot expired;
\*   body: the dict it returned;
\*   ended: its rank among the requests that ran the probes, in the order
\*          they ended
FreeProbe ==
    [st |-> "free", request_start |-> 0, from_cache |-> FALSE, overlap |-> FALSE,
     body |-> NoSnapshot, ended |-> 0]

\* GET /api/forecast/health arrives while others may be under way: no lock
\* is taken, the handler reads _health_cache and either returns the fresh
\* snapshot or goes on to its own probes
HealthArrive(i) ==
    /\ probes # <<>>
    /\ probes[i].st = "free"
    /\ \A j \in 1..(i - 1) : probes[j].st # "free"
    /\ probes' =
          [probes EXCEPT ![i] =
              IF HealthCacheFresh(_health_cache, now)
              THEN [FreeProbe EXCEPT !.st = "done", !.request_start = now,
                                     !.from_cache = TRUE, !.body = _health_cache.data]
              ELSE [FreeProbe EXCEPT !.st = "probing", !.request_start = now,
                                     !.overlap = \E j \in 1..Len(probes) :
                                                     probes[j].st = "probing"]]
    /\ UNCHANGED arrival
    /\ UNCHANGED <<aggVars, adaptVars, schedVars, healthVars, waitVars, serviceVars>>

\* what the probes of a request served among others can find: every
\* provider up, or stormglass down
RaceDownSets == {{}, {"stormglass"}}

\* The probes of request i end: the snapshot is built, assigned to
\* _health_cache and returned
HealthFinish(i, db_ok, down) ==
    /\ probes # <<>>
    /\ probes[i].st = "probing"
    /\ LET t == probes[i].request_start
           outcome == OutcomeOf(down)
           ok == [a \in AdapterSet |-> health_check_ok(cache, creds, a, t, outcome[a])]
           snapshot == HealthSnapshot(ok, db_ok, t)
       IN  /\ cache' = HealthFetchTail(cache, creds, t, outcome)
           /\ _health_cache' = HealthCachePut(_health_cache, t, snapshot)
           /\ probes' = [probes EXCEPT
                            ![i].st = "done",
                            ![i].body = snapshot,
                            ![i].ended = 1 + Cardinality({j \in 1..Len(probes) :
                                                             probes[j].ended > 0})]
    /\ UNCHANGED <<now, creds, fetches, netcalls, log>>
    /\ UNCHANGED <<health_pc, request_start, health_served, health_response>>
    /\ UNCHANGED arrival
    /\ UNCHANGED <<aggVars, schedVars, waitVars, serviceVars>>

\* Two workloads: the fetches of one adapter issued over time, or health
\* requests arriving over time with all credentials set
InitRace ==
    /\ IdleAgg /\ IdleSched /\ IdleHealth /\ IdleWait /\ IdleService
    /\ arrival = NoArrival
    /\ \/ CacheInit /\ probes = <<>>
       \/ IdleAdapt /\ probes = [i \in 1..MaxConcurrent |-> FreeProbe]

NextRace ==
    \/ fetches # NoFetches /\ Tick
    \/ fetches # NoFetches /\
          \E i \in 1..MaxConcurrent, c \in CacheCoordinates : FetchStart(i, c[1], c[2])
    \/ fetches # NoFetches /\
          \E i \in 1..MaxConcurrent, k \in {"obs", "unavailable", "none", "exc"} :
              FetchFinish(i, k)
    \/ probes # <<>> /\ HealthTick
    \/ \E i \in 1..MaxConcurrent : HealthArrive(i)
    \/ \E i \in 1..MaxConcurrent, db_ok \in BOOLEAN, down \in RaceDownSets :
           HealthFinish(i, db_ok, down)

SpecRace == InitRace /\ [][NextRace]_vars

-----------------------------------------------------------------------------

(* The summary and the diagnostics for given provider readings *)

\* the providers' readings under get_global_forecast and get_forecast_debug.
\* The request has been made with neither the ERA5 key nor the Copernicus
\* credentials set and every fetch has ended: noaa_gfs found no data,
\* worldtides answered, and each provider of SummaryAdapters either failed
\* (Absent) or answered with a reading, which can be null or 0.
Absent == -2

SummaryAdapters == {"stormglass", "openweather", "metno", "noaa_erddap", "openmeteo"}

SummaryReadings == {Absent, NoneVal, 0, 150, 225, 300}

\* the wave providers agree but for one of them, which is 0.01 m off
NearReadings ==
    {[a \in SummaryAdapters |-> IF a = off THEN base + 1 - 2 * (base % 2) ELSE base] :
        off \in SummaryAdapters \ {"openweather"}, base \in {150, 151}}

\* the reports {3.0, 3.2, 2.9} m of three providers, the others failing
ExampleReadings ==
    [a \in SummaryAdapters |->
        CASE a = "stormglass"  -> 300
          [] a = "metno"       -> 320
          [] a = "noaa_erddap" -> 290
          [] OTHER             -> Absent]

\* what the gather collected when the providers answered with readings f
GatheredResults(f) ==
    [a \in AdapterSet |->
        IF a \in SummaryAdapters
        THEN (IF f[a] = Absent THEN NoneResult ELSE Observation(a, f[a]))
        ELSE IF a = "worldtides" THEN Observation(a, Reading)
        ELSE Unavailable(a)]

\* the adapter caches once those fetches have ended at time t
CachesAfter(res, lat, lon, t) ==
    [a \in CachingAdapters |->
        IF StoresResult(a, res[a].kind)
        THEN _get_cache_key(a, lat, lon) :> [data |-> res[a], cached_at |-> t]
        ELSE <<>>]

InitSummary ==
    /\ IdleSched /\ IdleHealth /\ IdleWait /\ IdleService /\ IdleRace
    /\ req \in {[endpoint |-> e, lat |-> 3363, lon |-> -11800] : e \in Endpoints}
    /\ pc = "gathering"
    /\ task = [a \in AdapterSet |-> "done"]
    /\ results \in {GatheredResults(f) :
                      f \in [SummaryAdapters -> SummaryReadings]
                             \cup NearReadings \cup {ExampleReadings}}
    /\ calls = [a \in AdapterSet |-> 1]
    /\ response = NoResponse
    /\ now = 0
    /\ cache = CachesAfter(results, req.lat, req.lon, now)
    /\ creds = [a \in CredentialAdapters |-> FALSE]
    /\ fetches = NoFetches
    /\ netcalls = [a \in AdapterSet |-> IF a \in CredentialAdapters THEN 0 ELSE 1]
    /\ log = <<>>

NextSummary == Respond

SpecSummary == InitSummary /\ [][NextSummary]_vars

-----------------------------------------------------------------------------
(* The order in which the fetches of one request end *)

\* the providers that fail in the outcomes studied
FailingSets ==
    {{}, {"stormglass", "noaa_gfs"}, {"openweather", "worldtides", "metno", "openmeteo"}}

\* outcomes fixed for the fetches of a request: a failing provider ends as
\* its adapter reports a failure, the others answer
OrderOutcomes ==
    {[a \in AdapterSet |->
         IF a \notin failing THEN "obs"
         ELSE IF a = "noaa_gfs" THEN "unavailable"
         ELSE IF a = "metno" THEN "exc"
         ELSE "none"] : failing \in FailingSets}

\* the adapters of a sequence that ended in the head of their fetch
EndedAtHead(order, head) == SelectSeq(order, LAMBDA a : head[a].how # "remote")

\* A request has been made with empty caches and neither the ERA5 key nor
\* the Copernicus credentials set: those two fetches returned at once, the
\* other seven are in flight.
InitOrder ==
    /\ IdleSched /\ IdleHealth /\ IdleWait /\ IdleService
    /\ now = 0
    /\ cache = [a \in CachingAdapters |-> <<>>]
    /\ creds = [a \in CredentialAdapters |-> FALSE]
    /\ fetches = NoFetches
    /\ log = <<>>
    /\ req \in {[endpoint |-> e, lat |-> 3363, lon |-> -11800] : e \in Endpoints}
    /\ pc = "gathering"
    /\ response = NoResponse
    /\ calls = [a \in AdapterSet |-> 1]
    /\ LET head == [a \in AdapterSet |->
                       FetchHead(cache, creds, a, req.lat, req.lon, now)]
       IN  /\ task = [a \in AdapterSet |->
                         IF head[a].how = "remote" THEN "inflight" ELSE "done"]
           /\ results = [a \in AdapterSet |-> head[a].data]
           /\ netcalls = [a \in AdapterSet |-> IF head[a].how = "remote" THEN 1 ELSE 0]
           /\ arrival \in {[outcome |-> o, order |-> EndedAtHead(Adapters, head)] :
                             o \in OrderOutcomes}
    /\ probes = <<>>

NextOrder ==
    \/ \E a \in AdapterSet, k \in {"obs", "unavailable", "none", "exc"} : Complete(a, k)
    \/ Respond

SpecOrder == InitOrder /\ [][NextOrder]_vars

-----------------------------------------------------------------------------

(* Properties of the aggregation endpoints, under SpecAgg *)

\* the request was answered by get_global_forecast for valid coordinates
AnsweredGlobal ==
    /\ pc = "done"
    /\ req.endpoint = "global"
    /\ -9000 <= req.lat /\ req.lat <= 9000
    /\ -18000 <= req.lon /\ req.lon <= 18000

\* the adapters whose fetch did not yield an observation
FailedAdapters == {a \in AdapterSet : results[a].kind # "obs"}

SeqSet(s) == {s[i] : i \in 1..Len(s)}

\* C1: a request with valid coordinates is answered by get_global_forecast
\* with HTTP 200 whatever the nine adapters returned or raised, all nine
\* failing included.
C1_AlwaysSuccess == AnsweredGlobal => response.status = 200

\* C1 witness: the request was answered 200 although no adapter delivered
\* an observation and some of them raised
C1_Witness ==
    /\ AnsweredGlobal
    /\ response.status = 200
    /\ FailedAdapters = AdapterSet
    /\ \E a \in AdapterSet : results[a].kind = "exc"
    /\ \E a \in AdapterSet : results[a].kind = "none"
    /\ \E a \in AdapterSet : results[a].kind = "unavailable"

\* C2 as stated: with k failed adapters, sources_failed is a list of length
\* k and sources_available a list of length 9 - k, the two are disjoint and
\* cover the nine providers, and partial is k > 0.
C2_AsStated ==
    (AnsweredGlobal /\ response.status = 200) =>
        LET k == Cardinality(FailedAdapters)
        IN  /\ ~response.sources_failed.is_null
            /\ Len(response.sources_failed.items) = k
            /\ Len(response.sources_available) = Len(Adapters) - k
            /\ SeqSet(response.sources_available) \cap SeqSet(response.sources_failed.items) = {}
            /\ SeqSet(response.sources_available) \cup SeqSet(response.sources_failed.items) = AdapterSet
            /\ response.partial = (k > 0)

\* C2 amended: with k failed adapters, sources_available lists the 9 - k
\* others once each, partial is k > 0, and sources_failed lists the k
\* failed providers once each when k > 0 but is null when k = 0.
C2_FailedListOrNull ==
    (AnsweredGlobal /\ response.status = 200) =>
        LET k == Cardinality(FailedAdapters)
        IN  /\ response.sources_failed.is_null = (k = 0)
            /\ Len(response.sources_failed.items) = k
            /\ SeqSet(response.sources_failed.items) = FailedAdapters
            /\ Len(response.sources_available) = Len(Adapters) - k
            /\ SeqSet(response.sources_available) = AdapterSet \ FailedAdapters
            /\ response.partial = (k > 0)

\* C2 witness: a response with some but not all providers failed, one of
\* them by a result marked unavailable
C2_Witness ==
    /\ AnsweredGlobal
    /\ response.status = 200
    /\ Cardinality(FailedAdapters) = 3
    /\ Len(response.sources_failed.items) = 3
    /\ results["noaa_gfs"].kind = "unavailable"
    /\ response.partial

\* C3: a request with a latitude outside [-90, 90] or a longitude outside
\* [-180, 180] is answered 400 by either endpoint and no adapter fetch was
\* called for it.
C3_RejectedBeforeFetch ==
    (/\ req # NoReq
     /\ \/ req.lat < -9000 \/ req.lat > 9000
        \/ req.lon < -18000 \/ req.lon > 18000)
    => /\ pc = "done"
       /\ response.status = 400
       /\ \A a \in AdapterSet : calls[a] = 0 /\ netcalls[a] = 0 /\ task[a] = "none"

\* C3 witness: the debug endpoint rejected a longitude just outside the range
C3_Witness ==
    /\ req.endpoint = "debug"
    /\ req.lat = 0 /\ req.lon = 18001
    /\ response.status = 400
    /\ \A a \in AdapterSet : calls[a] = 0

\* C4: an adapter that raised neither cancels the other fetches nor ends the
\* gather early: the handler answers only once all nine fetches are done,
\* with every other adapter's result passed on and the raising adapter
\* recorded as failed.
C4_FailureIsolated ==
    /\ \A a \in AdapterSet : task[a] # "cancelled"
    /\ (pc = "done" /\ response.status # 400) =>
          /\ \A a \in AdapterSet : task[a] = "done"
          /\ response.status = 200
          /\ \A a \in AdapterSet :
                IF results[a].kind = "exc"
                THEN /\ a \in SeqSet(response.sources_failed.items)
                     /\ a \notin SeqSet(response.sources_available)
                     /\ response.sources[a].kind # "obs"
                ELSE results[a].kind = "obs" => response.sources[a] = results[a]

\* C4 witness: one adapter raised, the other eight delivered observations
\* and all eight are in the response
C4_Witness ==
    /\ AnsweredGlobal
    /\ results["noaa_gfs"].kind = "exc"
    /\ \A a \in AdapterSet \ {"noaa_gfs"} :
          results[a].kind = "obs" /\ response.sources[a] = results[a]
    /\ response.sources_failed.items = <<"noaa_gfs">>

-----------------------------------------------------------------------------
(* Properties of the adapter caches, under SpecCache *)

\* log entries i < j are the first and the second fetch of one cell
FirstTwo(i, j) ==
    /\ i < j
    /\ log[i].cell = log[j].cell
    /\ \A k \in 1..(j - 1) : k # i => log[k].cell # log[j].cell

\* seconds between the starts of fetches i and j
Between(i, j) == log[j].start_time - log[i].start_time

\* the fetches among i and j that went to the remote provider
RemoteAmong(i, j) == Cardinality({k \in {i, j} : log[k].how = "remote"})

C6_FreshOnly ==
    \A i \in 1..Len(log) :
        /\ log[i].how = "hit" => 0 <= log[i].found_age /\ log[i].found_age < CACHE_TTL
        /\ log[i].found_age >= CACHE_TTL => log[i].how = "remote"

\* C6 witness: a fetch found an entry of exactly the TTL's age and went remote
C6_Witness ==
    \E i \in 1..Len(log) : log[i].found_age = CACHE_TTL /\ log[i].how = "remote"

-----------------------------------------------------------------------------
(* Properties of the scheduler, under SpecSched *)

\* stop() was called while the current loop task was inside a cycle, and
\* has returned
StoppedMidCycle ==
    /\ stopper = "returned"
    /\ hist.stop_at \in {"load", "gather", "loc_sleep"}

\* C7 as stated: after a stop() during a cycle, the ingest calls in flight
\* ran to their end, no location or cycle began, is_running is false and the
\* loop task returned.
C7_AsStated ==
    StoppedMidCycle =>
        /\ \A s \in hist.stop_inflight : ingest[s].st \in {"returned", "raised"}
        /\ ~hist.work_after_stop
        /\ ~is_running
        /\ loop.task = "finished"

\* C7 amended: after a stop() during a cycle, the ingest calls in flight
\* were cancelled, no location or cycle began, is_running is false and the
\* loop task returned.
C7_InFlightCancelled ==
    StoppedMidCycle =>
        /\ \A s \in hist.stop_inflight : ingest[s].st = "cancelled"
        /\ \A s \in SourceSet : ingest[s].st # "inflight"
        /\ ~hist.work_after_stop
        /\ ~is_running
        /\ loop.task = "finished"

\* C7 witness: stop() found three ingest calls of a location in flight
C7_Witness ==
    /\ StoppedMidCycle
    /\ hist.stop_at = "gather"
    /\ Cardinality(hist.stop_inflight) = 3
    /\ \E s \in SourceSet : ingest[s].st = "raised"
    /\ loop.task = "finished"

\* C8: once stop() has returned for a loop task that was alive, that task
\* is done and is_running is false, and stop() never ends with an exception.
C8_StoppedAfterStop ==
    /\ stopper # "raised"
    /\ (stopper = "returned" /\ hist.stop_at # "none") =>
          /\ loop.task \in {"finished", "cancelled"}
          /\ ~is_running

\* C8 witness: stop() returned after cancelling the loop in its error backoff
C8_Witness ==
    /\ stopper = "returned"
    /\ hist.stop_at = "backoff_sleep"
    /\ loop.task = "cancelled"
    /\ ~is_running

\* C9: no loop task is ever left unfinished behind the one self.task names:
\* at most one unfinished loop task exists.
C9_SingleLoop == hist.orphans = 0

\* C9 witness: start() was called while the loop task was in a cycle
C9_Witness ==
    /\ hist.start_noop
    /\ loop.task = "pending"
    /\ loop.at = "gather"
    /\ hist.orphans = 0

\* C10: in a cycle in which an ingest call raised, the loop still reaches
\* the interval sleep of 3600 s with all five calls of every location ended,
\* and never the error backoff.
C10_RaiseDoesNotStopCycle ==
    hist.raised =>
        /\ loop.at # "backoff_sleep"
        /\ loop.at = "interval_sleep" =>
              /\ loop.sleep_for = INGESTION_INTERVAL
              /\ hist.finished = Len(Sources) * Len(loop.buoy_locations)

\* C10 witness: a cycle over two locations with a raising call is in its
\* interval sleep
C10_Witness ==
    /\ hist.raised
    /\ loop.at = "interval_sleep"
    /\ loop.sleep_for = 3600
    /\ Len(loop.buoy_locations) = 2
    /\ hist.finished = 10

\* C11: an exception that escapes the loop body (the reload of the locations
\* failing) never ends the periodic loop: as long as stop() was not called
\* the loop task stays alive, it sleeps the 300 s backoff, and when that
\* sleep returns it starts another cycle.
C11_LoopSurvivesException ==
    /\ loop.task \in {"finished", "cancelled"} => hist.stop_at # "none"
    /\ (loop.task = "pending" /\ loop.at = "backoff_sleep") =>
          loop.sleep_for = ERROR_BACKOFF
    /\ (hist.after_backoff /\ hist.stop_at = "none") =>
          /\ loop.task = "pending"
          /\ is_running
          /\ loop.at = "load"

\* C11 witness: without any stop(), the loop is reloading the locations in
\* a cycle it entered when the error backoff ended
C11_Witness ==
    /\ hist.after_backoff
    /\ hist.stop_at = "none"
    /\ loop.task = "pending"
    /\ loop.at = "load"
    /\ is_running

\* C12: every cycle reloads the location list from the station table before
\* it processes anything and calls ingest_location for exactly the stations
\* that reload found, in order, whatever is added to or removed from the
\* table during the cycle; an edit made between two cycles shows in the
\* cycle that follows.
C12_ReloadEachCycle ==
    (loop.task = "pending" /\ loop.at \in {"gather", "loc_sleep", "interval_sleep"}) =>
        /\ loop.buoy_locations = StationList(1, hist.db_at_load)
        /\ loop.at \in {"gather", "loc_sleep"} =>
              hist.processed = SubSeq(loop.buoy_locations, 1, loop.idx)
        /\ loop.at = "interval_sleep" =>
              /\ hist.processed = StationList(1, hist.db_at_load)
              /\ SeqSet(hist.processed) = hist.db_at_load

\* C12 witness: the reload of a later cycle found one station where the
\* cycle before had found another, and the cycle is ingesting that station
C12_Witness ==
    /\ loop.task = "pending"
    /\ loop.at = "gather"
    /\ hist.reloaded_new
    /\ hist.stop_at = "none"
    /\ hist.db_at_load = {"46042"}
    /\ hist.processed = <<"46042">>

\* C13: locations are processed one at a time: the five ingest calls of a
\* location start together and run concurrently, and those of the next
\* location start only when all five have ended and the 3 s sleep that
\* follows them has returned.
C13_OneLocationAtATime ==
    /\ ~hist.overlap
    /\ (loop.task = "pending" /\ loop.at = "gather") =>
          /\ \A s \in SourceSet : ingest[s].st \in {"inflight", "returned", "raised"}
          /\ loop.idx > 1 => hist.slept = LOCATION_DELAY
    /\ (loop.task = "pending" /\ loop.at = "loc_sleep") =>
          /\ loop.sleep_for = LOCATION_DELAY
          /\ \A s \in SourceSet : ingest[s].st = "idle"

\* C13 witness: after the delay, the five ingest calls of the second
\* location are in flight at once
C13_Witness ==
    /\ loop.task = "pending"
    /\ loop.at = "gather"
    /\ loop.idx = 2
    /\ hist.slept = 3
    /\ \A s \in SourceSet : ingest[s].st = "inflight"
    /\ hist.processed = Stations

-----------------------------------------------------------------------------
(* Properties of the health endpoint, under SpecHealth *)

\* the last health request was answered after computing a new snapshot
AnsweredFresh == health_pc = "done" /\ ~health_response.from_cache

\* C14: a health request that finds a cached snapshot younger than 300 s is
\* answered with that snapshot as it was stored, and serving it runs no
\* provider health check and no storage probe.
C14_CachedWhileFresh ==
    (/\ health_pc = "done"
     /\ 0 <= health_response.found_age
     /\ health_response.found_age < _health_cache_ttl) =>
        /\ health_response.from_cache
        /\ health_response.body = _health_cache.data
        /\ _health_cache.timestamp = request_start - health_response.found_age
        /\ health_response.body.timestamp = _health_cache.timestamp
        /\ health_response.probed = {}
        /\ health_response.remote = {}
        /\ ~health_response.db_probed

\* C14 witness: a degraded snapshot was returned again 150 s after it was
\* computed
C14_Witness ==
    /\ health_pc = "done"
    /\ health_served = 2
    /\ health_response.from_cache
    /\ health_response.found_age = 150
    /\ health_response.body.status = "degraded"
    /\ health_response.probed = {}

\* C15: a newly computed snapshot has status "ok" exactly when all nine
\* provider health checks and the storage probe reported ok, and
\* "degraded" otherwise.
C15_OkIffAllOk ==
    AnsweredFresh =>
        /\ health_response.body.status \in {"ok", "degraded"}
        /\ health_response.body.status = "ok" <=>
              /\ \A a \in AdapterSet : health_response.body.services[a]
              /\ health_response.db_ok

\* C15 witness: all nine providers reported ok and the storage probe
\* failed: the snapshot is degraded
C15_Witness ==
    /\ AnsweredFresh
    /\ \A a \in AdapterSet : health_response.body.services[a]
    /\ ~health_response.db_ok
    /\ health_response.body.status = "degraded"
    /\ health_response.body.failed_services.items = <<"database">>

\* C16 as stated: the health endpoint answers HTTP 200 when the status is
\* "ok" and HTTP 207 when it is "degraded", for a new and for a cached
\* snapshot.
C16_AsStated ==
    health_pc = "done" =>
        health_response.http =
            IF health_response.body.status = "ok" THEN 200 ELSE 207

\* C18 as stated: every health check that runs makes a remote call of its
\* own and does not go through the adapter's fetch function and its result
\* cache, so a provider reported ok answered a call made by that check.
C18_AsStated ==
    AnsweredFresh =>
        \A a \in health_response.probed :
            /\ a \in health_response.remote
            /\ a \notin health_response.via_fetch
            /\ health_response.body.services[a] => a \in health_response.remote

-----------------------------------------------------------------------------
(* Properties of the fetch timeouts, under SpecWait *)

\* seconds adapter a's fetch has spent in attempts that timed out
TimedOutWait(a) == timeouts[a] * FetchTimeout(a)

-----------------------------------------------------------------------------
(* Properties of the ingest endpoints of status.py *)

\* C19 as stated: GET /ingest/status answers "running" exactly when the
\* ingestion scheduler the application started is running, and "stopped"
\* otherwise.
C19_AsStated ==
    ingestion_status(ingestion_service).status = "running" <=> is_running

\* the records the ingest_data() calls of the trigger run stored
RECURSIVE LoggedRecords(_)
LoggedRecords(l) ==
    IF l = <<>> THEN 0
    ELSE (IF Head(l).kind = "returned" THEN Head(l).n ELSE 0) + LoggedRecords(Tail(l))

\* the stations of the logged calls, in order
LoggedStations(l) == [i \in 1..Len(l) |-> l[i].station]

\* C20 as stated: POST /ingest/trigger has, when it answers, run the cycle
\* of the scheduler: all five sources for each monitored location loaded
\* from storage, and records_inserted is the number of records stored.
C20_AsStated ==
    trigger.pc = "done" =>
        /\ LoggedStations(trigger.log) = StationList(1, storage)
        /\ \A i \in 1..Len(trigger.log) : trigger.log[i].sources = SourceSet
        /\ trigger.response.records_inserted = LoggedRecords(trigger.log)

\* C20 amended: POST /ingest/trigger runs one pass of the legacy ingestion
\* service to completion before it answers: the NOAA buoy ingestion alone,
\* one station after the other over the service's seven configured
\* stations whatever storage holds, and records_inserted is the total of
\* the records stored by the stations whose ingestion did not raise.
C20_LegacyNoaaPass ==
    /\ trigger.pc # "done" => trigger.response.records_inserted = -1
    /\ trigger.pc \in {"ingest", "sleep"} => Len(trigger.log) \in {trigger.idx - 1, trigger.idx}
    /\ trigger.pc = "done" =>
          /\ LoggedStations(trigger.log) = BUOY_STATIONS
          /\ \A i \in 1..Len(trigger.log) : trigger.log[i].sources = {"noaa"}
          /\ trigger.response.status = "success"
          /\ trigger.response.records_inserted = LoggedRecords(trigger.log)
          /\ trigger.response.buoys_processed = 7

\* C20 witness: the trigger answered after a pass in which two stations
\* raised and five stored two records each, with one station in storage
C20_Witness ==
    /\ trigger.pc = "done"
    /\ storage = {"41001"}
    /\ Len(trigger.log) = 7
    /\ trigger.log[2].kind = "raised"
    /\ trigger.log[7].kind = "raised"
    /\ trigger.response.records_inserted = 10

-----------------------------------------------------------------------------
(* Properties of the summary and the diagnostics, under SpecSummary *)

\* every non-null value of a field among the results of the providers, in
\* the providers' order
RECURSIVE ReportedValues(_, _, _)
ReportedValues(order, res, field) ==
    IF order = <<>> THEN <<>>
    ELSE (IF res[Head(order)][field] # NoneVal THEN <<res[Head(order)][field]>> ELSE <<>>)
         \o ReportedValues(Tail(order), res, field)

\* the digits each summary metric is rounded to
SummaryDigits ==
    [wave_height_m |-> 2, wind_speed_ms |-> 1, temperature_c |-> 1]

\* C21 as stated: each summary metric of the aggregation response is the
\* mean of every non-null value the providers reported for it, a reported 0
\* included, and it is null exactly when no provider reported a value.
C21_AsStated ==
    (pc = "done" /\ req.endpoint = "global" /\ response.status = 200) =>
        \A field \in DOMAIN SummaryDigits :
            LET values == ReportedValues(Adapters, results, field)
            IN  /\ response.summary[field] = MeanRounded(values, SummaryDigits[field])
                /\ (response.summary[field] = NoneVal) <=> (values = <<>>)

\* the request was answered by get_forecast_debug
AnsweredDebug == pc = "done" /\ req.endpoint = "debug" /\ response.status = 200

\* the metrics of the diagnostics and the field each is read from
DebugMetrics == [wave_height |-> "wave_height_m", wind_speed |-> "wind_speed_ms"]

\* the values reported for a metric, by source, as the answer shows them
ReportedFor(metric) == ValuesBySource(Adapters, response.sources, DebugMetrics[metric])

\* the sources the answer lists as outliers for a metric
ListedOutliers(metric) ==
    IF metric = "wave_height"
    THEN SeqSet(response.data_quality.wave_height_outliers.items)
    ELSE SeqSet(response.data_quality.wind_speed_outliers.items)

\* std_dev > 0 and |value - mean| / std_dev > 1.5 for the mean and the
\* standard deviation of values: with n values of sum s and
\* d = sum((n * x - s) ^ 2), the z-score is |n * value - s| * sqrt(n / d)
ZScoreAbove15(values, value) ==
    LET n == Len(values)
        s == SumSeq(values)
        d == ScaledSquares(values, n, s)
    IN  d > 0 /\ 4 * n * (n * value - s) * (n * value - s) > 9 * d

\* C22 as stated: in the debug diagnostics a provider is listed as an
\* outlier for a metric exactly when the standard deviation of the values
\* reported for the metric is above 0 and the provider's value lies more
\* than 1.5 standard deviations from their mean.
C22_AsStated ==
    AnsweredDebug =>
        \A metric \in DOMAIN DebugMetrics :
            LET reported == ReportedFor(metric)
            IN  \A i \in 1..Len(reported) :
                    (reported[i].source \in ListedOutliers(metric))
                    <=> ZScoreAbove15(ValuesOf(reported), reported[i].value)

\* std_dev / mean * 100 < pct for the mean and the standard deviation of
\* values, pct a multiple of 10 and the mean above 0
CvUnder(values, pct) ==
    LET n == Len(values)
        s == SumSeq(values)
        d == ScaledSquares(values, n, s)
    IN  100 * d < (pct \div 10) * (pct \div 10) * s * s * n

\* the agreement level the thresholds 10 %, 20 % and 30 % give
LevelByThresholds(values) ==
    CASE CvUnder(values, 10)                              -> "excellent"
      [] ~CvUnder(values, 10) /\ CvUnder(values, 20)      -> "good"
      [] ~CvUnder(values, 20) /\ CvUnder(values, 30)      -> "moderate"
      [] OTHER                                            -> "poor"

\* C23: for a metric with at least two reported values (and a mean above 0,
\* where the coefficient of variation is defined) the agreement level of
\* the diagnostics is excellent for CV < 10 %, good for 10 % <= CV < 20 %,
\* moderate for 20 % <= CV < 30 % and poor otherwise; the wave heights
\* 3.0, 3.2 and 2.9 m are answered with a mean within 0.01 of 3.033, a
\* standard deviation within 0.01 of 0.126 and the level excellent.
C23_AgreementByCv ==
    AnsweredDebug =>
        /\ \A metric \in DOMAIN DebugMetrics :
               LET values == ValuesOf(ReportedFor(metric))
               IN  (Len(values) >= 2 /\ SumSeq(values) > 0) =>
                       response.statistics[metric].agreement_level
                           = LevelByThresholds(values)
        /\ results = GatheredResults(ExampleReadings) =>
               /\ Abs(10 * response.statistics.wave_height.mean - 3033) <= 10
               /\ Abs(10 * response.statistics.wave_height.std_dev - 126) <= 10
               /\ response.statistics.wave_height.agreement_level = "excellent"

\* the example reports were answered, and rated excellent
C23_Witness ==
    /\ AnsweredDebug
    /\ results = GatheredResults(ExampleReadings)
    /\ response.statistics.wave_height.count = 3
    /\ response.statistics.wave_height.agreement_level = "excellent"

-----------------------------------------------------------------------------
(* Properties of the order of completion, under SpecOrder *)

\* what each fetch of the request returns under the outcomes fixed for it
ResultsUnder(outcome) ==
    [a \in AdapterSet |->
        IF a \in CredentialAdapters /\ ~creds[a] THEN Unavailable(a)
        ELSE ResultOf(a, outcome[a])]

\* C24: for fixed adapter outcomes the content of the aggregation response
\* (sources, summary with the tide height, sources_available and
\* sources_failed in their order, partial) is the one answer those outcomes
\* give, whatever the order in which the fetches ended.
C24_SameForEveryOrder ==
    (pc = "done" /\ arrival.outcome # <<>>) =>
        response = IF req.endpoint = "global"
                   THEN get_global_forecast(ResultsUnder(arrival.outcome))
                   ELSE get_forecast_debug(ResultsUnder(arrival.outcome))

\* a request was answered whose fetches ended in the reverse of the order
\* of the gather's arguments, some of them failing
C24_Witness ==
    /\ pc = "done" /\ req.endpoint = "global" /\ response.status = 200
    /\ arrival.outcome["stormglass"] = "none"
    /\ arrival.order = <<"era5", "copernicus_marine", "openmeteo", "noaa_gfs",
                         "noaa_erddap", "metno", "worldtides", "openweather",
                         "stormglass">>
    /\ response.sources_available # <<>>
    /\ ~response.sources_failed.is_null


-----------------------------------------------------------------------------
(* Properties of concurrent requests, under SpecRace and SpecCache *)

\* the remote rounds of a cell that ended with an observation
Writers(cell) ==
    {i \in 1..Len(log) : /\ log[i].cell = cell
                         /\ log[i].how = "remote"
                         /\ log[i].kind = "obs"
                         /\ log[i].ended > 0}

\* the one among them that ended last
LastWriter(cell) ==
    CHOOSE i \in Writers(cell) : \A j \in Writers(cell) : log[j].ended <= log[i].ended

\* fetch j missed the cell while fetch i, which had missed it too, was
\* still on its remote round
BothMissed(i, j) ==
    /\ i # j
    /\ log[i].cell = log[j].cell
    /\ log[i].how = "remote" /\ log[j].how = "remote"
    /\ i \in log[j].open

\* health request j found the snapshot expired while request i, which had
\* found it expired too, was still probing
BothExpired(i, j) ==
    /\ i # j
    /\ ~probes[i].from_cache /\ ~probes[j].from_cache
    /\ probes[i].st # "free"
    /\ probes[j].st # "free" /\ probes[j].overlap

\* no other fetch stored an observation in the cell after fetch i ended
LastToStore(i) ==
    \A k \in Writers(log[i].cell) : log[k].ended <= log[i].ended

\* no other health request ended its probes after request i
LastToProbe(i) ==
    \A k \in 1..Len(probes) : probes[k].ended <= probes[i].ended

\* C25: when two concurrent requests both miss the same cell of an adapter
\* cache, or both find the health snapshot expired, each goes on to its own
\* remote round or its own probes without waiting for the other, and once
\* both have ended the cache holds what the one that ended last wrote (as
\* long as no third request has written since): the cell has the entry
\* stamped with that fetch's start time, the health cache the snapshot and
\* request_start of that request.
C25_LastWriterWins ==
    /\ fetches.adapter \in CachingAdapters =>
          \A i, j \in 1..Len(log) :
              BothMissed(i, j) =>
                 /\ netcalls[fetches.adapter] >=
                       Cardinality({k \in 1..Len(log) : log[k].how = "remote"})
                 /\ log[j].start_time >= log[i].start_time
                 /\ (log[i].kind = "obs" /\ log[j].kind = "obs") =>
                       LET cell == log[i].cell
                           last == IF log[i].ended > log[j].ended THEN i ELSE j
                       IN  LastToStore(last) =>
                              /\ cell \in DOMAIN cache[fetches.adapter]
                              /\ cache[fetches.adapter][cell] =
                                    [data |-> ResultOf(fetches.adapter, "obs"),
                                     cached_at |-> log[last].start_time]
    /\ \A i, j \in 1..Len(probes) :
          BothExpired(i, j) =>
             /\ probes[j].st = "done" => probes[j].ended > 0
             /\ probes[i].st = "done" => probes[i].ended > 0
             /\ (probes[i].st = "done" /\ probes[j].st = "done") =>
                   LET last == IF probes[i].ended > probes[j].ended THEN i ELSE j
                   IN  /\ probes[i].body.timestamp = probes[i].request_start
                       /\ probes[j].body.timestamp = probes[j].request_start
                       /\ LastToProbe(last) =>
                              _health_cache =
                                 [timestamp |-> probes[last].request_start,
                                  data |-> probes[last].body]

\* C25 witness for the adapter caches: two fetches of one cell were on their
\* remote rounds together, the later one ended first, and the cell holds the
\* entry of the earlier one, which ended last
C25_Witness_cell ==
    /\ fetches.adapter \in CachingAdapters
    /\ Len(log) = 2
    /\ BothMissed(1, 2)
    /\ log[1].kind = "obs" /\ log[2].kind = "obs"
    /\ log[1].ended = 2 /\ log[2].ended = 1
    /\ netcalls[fetches.adapter] = 2

\* C25 witness: two health requests probed together and came to different
\* snapshots; the one that arrived first ended last and its snapshot is the
\* one kept
C25_Witness ==
    /\ probes # <<>>
    /\ BothExpired(1, 2)
    /\ probes[1].st = "done" /\ probes[2].st = "done"
    /\ probes[1].ended = 2 /\ probes[2].ended = 1
    /\ probes[1].body # probes[2].body
    /\ probes[1].request_start < probes[2].request_start
    /\ _health_cache.data = probes[1].body

\* C29: an entry of an adapter cache is written only by a fetch whose remote
\* round gave an observation; a round that ends absent, marked unavailable
\* or with an error writes nothing, so every stored entry is an observation
\* stamped with the start of such a round and every answer served from the
\* cache is an observation.
C29_OnlySuccessStored ==
    fetches.adapter \in CachingAdapters =>
       /\ \A cell \in DOMAIN cache[fetches.adapter] :
             /\ cache[fetches.adapter][cell].data = ResultOf(fetches.adapter, "obs")
             /\ \E i \in Writers(cell) :
                   log[i].start_time = cache[fetches.adapter][cell].cached_at
       /\ \A i \in 1..Len(log) :
             /\ log[i].how = "hit" => log[i].kind = "obs"
             /\ Writers(log[i].cell) = {} =>
                   log[i].cell \notin DOMAIN cache[fetches.adapter]

\* C29 witness: the remote round of a fetch ended without an observation
\* and its cell has no entry
C29_Witness ==
    /\ fetches.adapter \in CachingAdapters
    /\ \E i \in 1..Len(log) :
          /\ log[i].how = "remote"
          /\ log[i].ended > 0
          /\ log[i].kind \in {"none", "unavailable", "exc"}
          /\ log[i].cell \notin DOMAIN cache[fetches.adapter]

\* C29 witness, second case: a cell stored by one fetch was asked for again
\* after the TTL, the new round failed, and the cell still holds the entry
\* of the first fetch
C29_Witness_kept ==
    /\ fetches.adapter \in CachingAdapters
    /\ Len(log) = 2
    /\ log[1].cell = log[2].cell
    /\ log[1].kind = "obs"
    /\ log[2].how = "remote" /\ log[2].ended = 2 /\ log[2].kind # "obs"
    /\ cache[fetches.adapter][log[1].cell].cached_at = log[1].start_time

\* C30 as stated: under any interleaving of concurrent fetches of one cell,
\* the cached_at stored for the cell never decreases.
C30_AsStated ==
    [][\A a \in CachingAdapters : \A cell \in DOMAIN cache[a] :
          /\ cell \in DOMAIN cache'[a]
          /\ cache'[a][cell].cached_at >= cache[a][cell].cached_at]_vars

\* C30 amended: under any interleaving of concurrent fetches of one cell,
\* the cell holds the entry of the fetch that stored last, stamped with that
\* fetch's start time; a fetch that started earlier and ends later replaces
\* the entry of one that started after it, so cached_at can go back.
C30_LastStoreStamps ==
    fetches.adapter \in CachingAdapters =>
       \A cell \in DOMAIN cache[fetches.adapter] :
          /\ Writers(cell) # {}
          /\ cache[fetches.adapter][cell].cached_at = log[LastWriter(cell)].start_time

\* C30 witness: the cell holds an entry stamped earlier than the start of
\* another fetch that had stored its observation in the cell before
C30_Witness ==
    /\ fetches.adapter \in CachingAdapters
    /\ \E i, j \in 1..Len(log) :
          /\ i \in Writers(log[i].cell) /\ j \in Writers(log[i].cell)
          /\ log[i].start_time < log[j].start_time
          /\ log[i].ended > log[j].ended
          /\ cache[fetches.adapter][log[i].cell].cached_at = log[i].start_time


-----------------------------------------------------------------------------
(* Properties of the cycle totals, the empty reload and the restart, under SpecSched *)

\* the record count the ingest call of source s returned for the i-th
\* location of the current cycle; a call that raised counts 0
ReturnedFor(i, s) ==
    IF hist.results[i][s].st = "returned" THEN hist.results[i][s].n ELSE 0

RECURSIVE SumOverLocations(_, _)
SumOverLocations(i, s) ==
    IF i = 0 THEN 0 ELSE ReturnedFor(i, s) + SumOverLocations(i - 1, s)

\* the cycle has gone through all its locations
CycleEnded ==
    /\ loop.task = "pending"
    /\ loop.at = "interval_sleep"
    /\ hist.load = "some"

\* C26: at the end of a scheduler cycle the total of each of the five
\* sources is the sum, over the locations of the cycle, of the record counts
\* the source's ingest call returned; a call that raised adds 0 for its
\* location.
C26_TotalsAreSums ==
    CycleEnded =>
       /\ Len(hist.results) = Len(loop.buoy_locations)
       /\ hist.processed = loop.buoy_locations
       /\ \A s \in SourceSet :
             loop.total_counts[s] = SumOverLocations(Len(hist.results), s)

\* C26 witness: a cycle over two locations ended; noaa raised for the first
\* and returned for the second, metno returned for both
C26_Witness ==
    /\ CycleEnded
    /\ Len(hist.results) = 2
    /\ hist.results[1]["noaa"].st = "raised"
    /\ hist.results[2]["noaa"].st = "returned"
    /\ hist.results[1]["metno"].st = "returned"
    /\ hist.results[2]["metno"].st = "returned"
    /\ loop.total_counts["noaa"] = 2
    /\ loop.total_counts["metno"] = 4

\* C27: when the reload returns no monitored location, the cycle calls no
\* ingestion adapter, is not taken for an error, and the loop sleeps the
\* normal interval, not the backoff, before the next cycle.
C27_EmptyReloadSkips ==
    (hist.load = "empty" /\ loop.task = "pending") =>
       /\ loop.at = "interval_sleep"
       /\ loop.sleep_for = INGESTION_INTERVAL
       /\ loop.sleep_for # ERROR_BACKOFF
       /\ hist.processed = <<>>
       /\ hist.results = <<>>
       /\ hist.finished = 0
       /\ \A s \in SourceSet : ingest[s].st = "idle"

\* C27 witness: the loop sleeps the interval after a reload that found the
\* station table empty
C27_Witness ==
    /\ hist.load = "empty"
    /\ loop.task = "pending"
    /\ loop.at = "interval_sleep"
    /\ loop.sleep_for = 3600
    /\ loop.buoy_locations = <<>>
    /\ storage = {}
    /\ is_running

\* stop() has returned and no loop task is alive
Stopped ==
    /\ stopper = "returned"
    /\ loop.task \in {"finished", "cancelled"}

\* C28: after stop() has returned, the next start() launches a new periodic
\* loop; the loop's first step sets is_running to true and begins a cycle,
\* and is_running stays true until stop() is called again, so the scheduler
\* goes from stopped to running to stopped any number of times.
C28_RestartsAfterStop ==
    /\ [][(Stopped /\ (loop' # loop \/ hist' # hist)) =>
             /\ loop'.task = "pending" /\ loop'.at = "start" /\ ~loop'.cancel
             /\ hist'.stop_at = "none"]_vars
    /\ [][(loop.task = "pending" /\ loop.at = "start" /\ loop'.task = "pending"
           /\ loop'.at # "start") =>
             is_running' /\ loop'.at = "load"]_vars
    /\ [](/\ loop.task = "pending" /\ loop.at # "start"
          /\ hist.stop_at = "none"
          => is_running)

\* C28 witness: a loop launched after stop() had returned ran a location
\* of a cycle with is_running true, was stopped in turn, and stop() has
\* returned again
C28_Witness ==
    /\ hist.lives = 1
    /\ hist.processed # <<>>
    /\ hist.stop_at \in {"gather", "loc_sleep", "interval_sleep"}
    /\ Stopped
    /\ ~is_running

=============================================================================
